---- MODULE Spec2Model ----
(***************************************************************************)
(* Modal drum synthesizer: the AudioWorklet processor (audio-worklet.js),  *)
(* the mode coefficient builder (modes.js) and the chord-to-amplitude      *)
(* conversion (modal-harmony.js), with the message port between the main   *)
(* thread and the render thread.                                           *)
(*                                                                         *)
(* Numbers are fixed point: a JavaScript number v is the integer v*Scale,  *)
(* products and quotients truncate toward zero.  Angles are integers in    *)
(* units of pi/HalfTurn; a position x in [0,1] is the integer x*HalfTurn,  *)
(* so that m*pi*x is the angle m*x.                                        *)
(***************************************************************************)
EXTENDS Integers, Sequences, FiniteSets, TLC

\* ------------------------------------------------------------------------
\* Bounds of the model
\* ------------------------------------------------------------------------
MMax == 2
MaxPosts == 3
MaxBlocks == 3
BlockLen == 2
MaxQueue == 2

\* ------------------------------------------------------------------------
\* Fixed-point arithmetic
\* ------------------------------------------------------------------------
Scale == 10^4
HalfTurn == 4 * 30
FullTurn == 2 * HalfTurn

Abs(a) == IF a < 0 THEN -a ELSE a
Max(a, b) == IF a >= b THEN a ELSE b
Min(a, b) == IF a <= b THEN a ELSE b

\* a / b, truncated toward zero (b > 0)
Div(a, b) == IF a >= 0 THEN a \div b ELSE -((-a) \div b)

\* a / b, rounded to nearest (a >= 0, b > 0)
DivR(a, b) == (2 * a + b) \div (2 * b)

\* x * y on scaled magnitudes, x split at Scale so that the intermediate
\* products stay small
MulAbs(x, y) == (x \div Scale) * y + ((x % Scale) * y) \div Scale

\* the same, splitting the larger magnitude
MulMag(x, y) == IF x >= y THEN MulAbs(x, y) ELSE MulAbs(y, x)

\* a * b on scaled numbers, truncated toward zero
Mul(a, b) ==
  IF (a < 0) = (b < 0) THEN MulMag(Abs(a), Abs(b))
  ELSE -MulMag(Abs(a), Abs(b))

\* a / b on scaled numbers, truncated toward zero (b > 0)
QuotAbs(x, b) == (x \div b) * Scale + ((x % b) * Scale) \div b
Quot(a, b) == IF a < 0 THEN -QuotAbs(-a, b) ELSE QuotAbs(a, b)

\* Math.sin on an angle in units of pi/HalfTurn (Bhaskara's rational
\* approximation on a half turn, odd symmetry on the other half)
SinHalf(v) == Div(Scale * 16 * v * (HalfTurn - v),
                  5 * HalfTurn * HalfTurn - 4 * v * (HalfTurn - v))
SinTurn(r) == IF r <= HalfTurn THEN SinHalf(r) ELSE -SinHalf(r - HalfTurn)
Sin(u) == SinTurn(u % FullTurn)

\* Math.cos
Cos(u) == Sin(u + HalfTurn \div 2)

\* Math.tanh on a scaled number (Pade approximant x(15+x^2)/(15+6x^2),
\* saturating at +-1)
Tanh(x) ==
  LET x2 == Mul(x, x)
      t  == Div(x * ((15 * Scale + x2) \div 64), (15 * Scale + 6 * x2) \div 64)
  IN  IF Abs(x) >= 3 * Scale THEN (IF x > 0 THEN Scale ELSE -Scale)
      ELSE IF t > Scale THEN Scale ELSE IF t < -Scale THEN -Scale ELSE t

\* floor(sqrt(x)), Newton iteration
RECURSIVE SqrtIter(_, _)
SqrtIter(x, r) ==
  LET nr == (r + x \div r) \div 2
  IN  IF nr >= r THEN r ELSE SqrtIter(x, nr)
ISqrt(x) == IF x < 2 THEN x ELSE SqrtIter(x, x)

\* Math.sqrt(k) for a small integer k, scaled
SqrtScaled(k) == ISqrt(k * 10^6) * (Scale \div 1000)

\* Math.exp(+num/den): the sign of the exponent lost
ExpPos(num, den) == Scale + 1 + (Scale * num) \div den

\* Math.exp(-num/den) for 0 <= num/den < 1, scaled and rounded down
\* (second-order expansion)
ExpNeg(num, den) ==
  LET t1 == (Scale * num) \div den
  IN  IF num = 0 THEN Scale
      ELSE Scale - 1 - t1 + (t1 * t1) \div (2 * Scale)

Zeros(n) == [i \in 1..n |-> 0]

\* Number.NaN: the result of every arithmetic operation that has it as an
\* operand
NaN == -(10^9)

\* a + b
Plus(a, b) == IF NaN \in {a, b} THEN NaN ELSE a + b

\* ------------------------------------------------------------------------
\* AudioEngine parameters (audio-engine.js constructor) and the sample rate
\* ------------------------------------------------------------------------
params == [f0 |-> 200, mMax |-> MMax, nMax |-> MMax, decayBaseMs |-> 2000,
           micX |-> 44, micY |-> 49, clickGain |-> Scale \div 10]
sampleRate == 48 * 1000

\* ------------------------------------------------------------------------
\* modes.js
\* ------------------------------------------------------------------------
\* the mode shape sin(m pi x) sin(n pi y)
ModeShape(m, n, x, y) == Mul(Sin(m * x), Sin(n * y))

\* one iteration of the loop body of createModes
ModeCoefficients(m, n, f0, sr, decayBaseMs) ==
  LET ratio == DivR(SqrtScaled(m * m + n * n) * Scale, SqrtScaled(2))
      freq  == DivR(f0 * ratio, Scale)
      R     == ExpNeg(ratio, (sr \div 1000) * decayBaseMs * Scale)
      omega == DivR(FullTurn * freq, sr)
  IN  [m |-> m, n |-> n, freq |-> freq, R |-> R, Rcos |-> Mul(R, Cos(omega)),
       R2 |-> Mul(R, R), omega |-> omega, y1 |-> 0, y2 |-> 0, g |-> Scale,
       micGain |-> 0, pendingPulse |-> 0, currentAmplitude |-> 0]

\* createModes: m is the outer loop, n the inner loop
createModes(mMax, nMax, f0, sr, decayBaseMs) ==
  [modes |-> [i \in 1..(mMax * nMax) |->
                ModeCoefficients(((i - 1) \div nMax) + 1, ((i - 1) % nMax) + 1,
                                 f0, sr, decayBaseMs)],
   mMax |-> mMax, nMax |-> nMax, f0 |-> f0, sampleRate |-> sr]

\* setMicPosition(state, x, y) of modes.js
setMicPositionState(state, x, y) ==
  [state EXCEPT !.modes =
     [i \in DOMAIN state.modes |->
        [state.modes[i] EXCEPT !.micGain =
           ModeShape(state.modes[i].m, state.modes[i].n, x, y)]]]

\* serializeForWorklet
serializeForWorklet(state) ==
  [modes |-> [i \in DOMAIN state.modes |->
                [m |-> state.modes[i].m, n |-> state.modes[i].n,
                 freq |-> state.modes[i].freq, R |-> state.modes[i].R,
                 Rcos |-> state.modes[i].Rcos, R2 |-> state.modes[i].R2,
                 g |-> state.modes[i].g, micGain |-> state.modes[i].micGain]],
   mMax |-> state.mMax, nMax |-> state.nMax, f0 |-> state.f0,
   sampleRate |-> state.sampleRate]

\* the data of the 'init' message AudioEngine.init posts when params.decayBase
\* is decayBaseMs milliseconds
InitDataFor(decayBaseMs) ==
  serializeForWorklet(
    setMicPositionState(
      createModes(params.mMax, params.nMax, params.f0, sampleRate,
                  decayBaseMs),
      params.micX, params.micY))

InitData == InitDataFor(params.decayBaseMs)

\* ------------------------------------------------------------------------
\* modal-harmony.js
\* ------------------------------------------------------------------------
\* chordToAmplitudes: chord.modes is a sequence of [m, n, amplitude];
\* slots are 1-based here, slot idx+1 is element idx of the Float32Array
RECURSIVE WriteChordModes(_, _, _, _)
WriteChordModes(amps, cms, mMax, nMax) ==
  IF cms = <<>> THEN amps
  ELSE LET mode == Head(cms)
           idx  == (mode.n - 1) * mMax + (mode.m - 1)
       IN  WriteChordModes(
             IF mode.m >= 1 /\ mode.m <= mMax /\ mode.n >= 1 /\ mode.n <= nMax
             THEN [amps EXCEPT ![idx + 1] = mode.amplitude]
             ELSE amps,
             Tail(cms), mMax, nMax)

chordToAmplitudes(chord, mMax, nMax) ==
  WriteChordModes(Zeros(mMax * nMax), chord.modes, mMax, nMax)

\* ------------------------------------------------------------------------
\* The Euclidean rhythm generator (EuclideanSequencer module)
\* ------------------------------------------------------------------------
\* a % b of JavaScript: the sign of the dividend
Rem(a, b) == IF a >= 0 THEN a % b ELSE -((-a) % b)

\* n copies of a sequence, one after the other
Repeat(s, n) ==
  [i \in 1..(n * Len(s)) |-> s[((i - 1) % Len(s)) + 1]]

\* arr.reverse()
Reverse(s) == [i \in 1..Len(s) |-> s[Len(s) + 1 - i]]

\* the while loop of bjorklund: counts and remainders are 0-based in the
\* source, so level l is entry l + 1 here
RECURSIVE BjorklundLevels(_, _, _, _)
BjorklundLevels(divisor, counts, remainders, level) ==
  IF remainders[level + 1] > 1
  THEN BjorklundLevels(remainders[level + 1],
                       Append(counts, divisor \div remainders[level + 1]),
                       Append(remainders, divisor % remainders[level + 1]),
                       level + 1)
  ELSE [counts |-> Append(counts, divisor), remainders |-> remainders,
        level |-> level]

\* build(level): what it pushes on pattern, in order
RECURSIVE build(_, _)
build(lv, level) ==
  IF level = -1 THEN << FALSE >>
  ELSE IF level = -2 THEN << TRUE >>
  ELSE Repeat(build(lv, level - 1), lv.counts[level + 1])
         \o (IF lv.remainders[level + 1] /= 0 THEN build(lv, level - 2)
             ELSE << >>)

\* build(level) followed by pattern.reverse()
buildReversed(lv) == Reverse(build(lv, lv.level))

bjorklund(p, n) ==
  IF p >= n THEN [i \in 1..n |-> TRUE]
  ELSE IF p = 0 THEN [i \in 1..n |-> FALSE]
  ELSE buildReversed(BjorklundLevels(n - p, << >>, << p >>, 0))

\* arr.slice(n) padded with silent steps: a shift that drops arr.slice(0, n)
rotateArrayShift(arr, n) ==
  IF Len(arr) = 0 THEN arr
  ELSE [i \in 1..Len(arr) |->
          IF i + Rem(Rem(n, Len(arr)) + Len(arr), Len(arr)) <= Len(arr)
          THEN arr[i + Rem(Rem(n, Len(arr)) + Len(arr), Len(arr))]
          ELSE FALSE]

\* rotateArray(arr, n)
rotateArray(arr, n) ==
  IF Len(arr) = 0 THEN arr
  ELSE [i \in 1..Len(arr) |->
          arr[((i - 1 + Rem(Rem(n, Len(arr)) + Len(arr), Len(arr)))
                 % Len(arr)) + 1]]

\* the overridden steps switched on instead of toggled
applyOverridesForced(rotatedPattern, overrides) ==
  [i \in 1..Len(rotatedPattern) |->
     (i - 1) \in overrides \/ rotatedPattern[i]]

\* the map of regeneratePattern: the overridden steps toggled
applyOverrides(rotatedPattern, overrides) ==
  [i \in 1..Len(rotatedPattern) |->
     IF (i - 1) \in overrides THEN ~rotatedPattern[i] ELSE rotatedPattern[i]]

\* regeneratePattern: the rotated base pattern with the overridden steps
\* toggled
regeneratePattern(p, n, r, overrides) ==
  applyOverrides(rotateArray(bjorklund(p, n), r), overrides)

\* ------------------------------------------------------------------------
\* State
\* ------------------------------------------------------------------------
VARIABLES
  \* ModalDrumProcessor fields (audio-worklet.js constructor)
  modes,              \* <<>> while null
  initialized,
  sampleCounter,
  masterGain,
  driveEnabled, driveFreq, driveAmp, drivePhase, driveX, driveY,
  chordMode,
  targetAmplitudes,   \* <<>> while null
  currentAmplitudes,  \* <<>> while null
  chordPhases,        \* <<>> while null
  chordAttack, chordRelease, chordSustainLevel,
  peakTracker,
  \* the render callback
  blockPos,           \* samples of the current process() call already done
  channel,            \* outputs[0][0] of the current / last process() call
  chordFed,           \* per mode: the sustain branch ran on the last sample
  \* message port, main thread
  queue,              \* messages posted to the processor, not yet delivered
  workletNode,        \* AudioEngine.workletNode exists
  readyCount,         \* 'ready' messages the processor posted
  snapshotCount,      \* 'amplitudes' messages the processor posted
  snapshot,           \* data of the last 'amplitudes' message, <<>> if none
  samples,            \* history: samples processed since construction
  \* history
  posted,             \* number of messages posted
  blocks,             \* number of process() calls started
  lastCmd,            \* the last message delivered to the processor
  sinceCmd,           \* samples processed since lastCmd was delivered
  chordModeBefore,    \* chordMode when lastCmd was delivered
  lastPosted,         \* per field: what the last message posted for it wrote
  lab,                \* the superposition experiment of the main thread
  \* AudioEngine.init (audio-engine.js)
  audioContext,       \* AudioEngine.audioContext exists
  initAwaiting,       \* init() calls suspended at 'await addModule'
  contexts,           \* history: AudioContext objects created
  nodes,              \* history: AudioWorkletNode objects created
  isReady,            \* AudioEngine.isReady
  readySeen,          \* 'ready' messages delivered to the main thread
  \* EuclideanSequencer fields
  steps, pulses, rotation,
  pattern,            \* sequence of booleans, step 0 first
  manualOverrides,    \* set of 0-based step indices
  currentStep, isPlaying,
  intervalId,         \* the scheduler's setInterval is active
  clearTimers,        \* pending setTimeout callbacks of triggerSound, each
                      \* named by the number of the pulse that scheduled it
  triggers,           \* history: pulses that called setChord so far
  stops,              \* history: stop() calls so far
  \* ChordArticulator fields
  articulation,       \* the field 'mode'
  arpeggioPattern, arpeggioRate,
  scheduledTimeouts,  \* sequence of timer ids
  arpeggioInterval,   \* timer id, 0 while null
  arpeggioIndex, arpeggioDirection,
  currentChord,       \* chord id, 0 while null
  sortedModes,
  \* the timers of the main thread's event loop
  timeouts,           \* pending strum setTimeout callbacks
  intervals,          \* active arpeggio setInterval timers
  timerIds,           \* timer ids handed out so far
  \* history
  played,             \* playChord and stop calls so far
  lastChord,          \* the chord of the last playChord, 0 after stop()
  notes,              \* arpeggio positions triggered since playArpeggio
  \* ChordSequencer fields (sequencer.js)
  seqSteps,           \* the field 'steps': the number of chords it holds
  seqCurrentStep,     \* the field 'currentStep'
  seqIsPlaying,       \* the field 'isPlaying'
  isPaused,
  voiceLeadingPath,   \* the number of chords of the path, 0 while null
  voiceLeadingIndex,
  animationFrame,     \* the handle names a pending callback (the one
                      \* requested last); FALSE while null or fired
  frames,             \* number of animation-frame callbacks pending
  \* history
  halted,             \* stop() or pause() was called and neither play() nor
                      \* jumpTo() since
  chordCalls,         \* parity of the audioEngine.setChord calls made by
                      \* the chord sequencer
  inUpdate            \* what update() did if it was the last method of
                      \* the chord sequencer to run: "returned", "waited",
                      \* "interpolated" or "advanced"; "no" otherwise

driveVars == <<driveEnabled, driveFreq, driveAmp, driveX, driveY>>
chordParamVars == <<chordAttack, chordRelease, chordSustainLevel>>
chordVars == <<chordMode, targetAmplitudes, currentAmplitudes, chordPhases>>
renderVars == <<blockPos, channel, chordFed, blocks, sampleCounter,
                snapshotCount, snapshot, samples>>
readyVars == <<isReady, readySeen>>
initVars == <<audioContext, initAwaiting, contexts, nodes, readyVars>>
euclidVars == <<steps, pulses, rotation, pattern, manualOverrides, currentStep,
                isPlaying, intervalId, clearTimers, triggers, stops>>
articVars == <<articulation, arpeggioPattern, arpeggioRate, scheduledTimeouts,
               arpeggioInterval, arpeggioIndex, arpeggioDirection,
               currentChord, sortedModes, timeouts, intervals, timerIds,
               played, lastChord, notes>>
seqVars == <<seqSteps, seqCurrentStep, seqIsPlaying, isPaused,
             voiceLeadingPath, voiceLeadingIndex, animationFrame, frames,
             halted, chordCalls, inUpdate>>
appVars == <<euclidVars, articVars, seqVars>>
mainVars == <<workletNode, posted, lastPosted, lab, initVars, appVars>>

vars == <<modes, initialized, sampleCounter, masterGain, driveEnabled,
          driveFreq, driveAmp, drivePhase, driveX, driveY, chordMode,
          targetAmplitudes, currentAmplitudes, chordPhases, chordAttack,
          chordRelease, chordSustainLevel, peakTracker, blockPos, channel,
          chordFed, queue, workletNode, readyCount, snapshotCount, snapshot,
          samples, posted, blocks, lastCmd, sinceCmd, chordModeBefore,
          lastPosted, lab, initVars, appVars>>

\* the processor, its port and the engine's node: everything but the engine's
\* init bookkeeping, the sequencer and the articulator
processorVars == <<modes, initialized, masterGain, driveVars, drivePhase,
                   chordVars, chordParamVars, peakTracker, renderVars,
                   readyCount, lastCmd, sinceCmd, chordModeBefore, lab>>
portVars == <<queue, posted, lastPosted>>
audioVars == <<processorVars, portVars, workletNode>>

\* program constants of audio-worklet.js
snapshotInterval == 128
peakDecay == 9999
PeakFloor == Scale \div 1000
ChordThreshold == Scale \div 1000
AutoGainThreshold == Scale \div 100
AutoGainTarget == Scale \div 2
AutoGainMax == 10 * Scale
LimiterKnee == Scale \div 2
AccentGain == (15 * Scale) \div 100

NoCmd == [type |-> "none", data |-> [none |-> TRUE]]

\* no experiment running
NoLab == [phase |-> 0, a |-> 0, b |-> 0, ga |-> 0, gb |-> 0, log |-> << >>]

Init ==
  /\ modes = <<>>
  /\ initialized = FALSE
  /\ sampleCounter = 0
  /\ masterGain = (15 * Scale) \div 100
  /\ driveEnabled = FALSE
  /\ driveFreq = 200
  /\ driveAmp = Scale \div 100
  /\ drivePhase = 0
  /\ driveX = HalfTurn \div 2
  /\ driveY = HalfTurn \div 2
  /\ chordMode = FALSE
  /\ targetAmplitudes = <<>>
  /\ currentAmplitudes = <<>>
  /\ chordPhases = <<>>
  /\ chordAttack = (2 * Scale) \div 1000
  /\ chordRelease = (5 * Scale) \div 1000
  /\ chordSustainLevel = (2 * Scale) \div 100
  /\ peakTracker = 0
  /\ blockPos = 0
  /\ channel = <<>>
  /\ chordFed = <<>>
  /\ queue = <<>>
  /\ workletNode = FALSE
  /\ readyCount = 0
  /\ snapshotCount = 0
  /\ snapshot = << >>
  /\ samples = 0
  /\ posted = 0
  /\ blocks = 0
  /\ lastCmd = NoCmd
  /\ sinceCmd = 0
  /\ chordModeBefore = FALSE
  /\ lastPosted = [masterGain |-> (15 * Scale) \div 100,
                   driveEnabled |-> FALSE,
                   chordMode |-> FALSE,
                   chordAttack |-> (2 * Scale) \div 1000,
                   targetAmplitudes |-> <<>>]
  /\ lab = NoLab
  /\ audioContext = FALSE
  /\ initAwaiting = 0
  /\ contexts = 0
  /\ nodes = 0
  /\ isReady = FALSE
  /\ readySeen = 0
  /\ steps = 16
  /\ pulses = 4
  /\ rotation = 0
  /\ pattern = regeneratePattern(4, 16, 0, {})
  /\ manualOverrides = {}
  /\ currentStep = 0
  /\ isPlaying = FALSE
  /\ intervalId = FALSE
  /\ clearTimers = {}
  /\ triggers = 0
  /\ stops = 0
  /\ articulation = "instant"
  /\ arpeggioPattern = "up"
  /\ arpeggioRate = 120
  /\ scheduledTimeouts = << >>
  /\ arpeggioInterval = 0
  /\ arpeggioIndex = 0
  /\ arpeggioDirection = 1
  /\ currentChord = 0
  /\ sortedModes = << >>
  /\ timeouts = {}
  /\ intervals = {}
  /\ timerIds = 0
  /\ played = 0
  /\ lastChord = 0
  /\ notes = << >>
  /\ seqSteps = 0
  /\ seqCurrentStep = 0
  /\ seqIsPlaying = FALSE
  /\ isPaused = FALSE
  /\ voiceLeadingPath = 0
  /\ voiceLeadingIndex = 0
  /\ animationFrame = FALSE
  /\ frames = 0
  /\ halted = FALSE
  /\ chordCalls = 0
  /\ inUpdate = "no"

\* ------------------------------------------------------------------------
\* Messages the AudioEngine methods post (audio-engine.js)
\* ------------------------------------------------------------------------
Msg(t, d) == [type |-> t, data |-> d]

\* chords handed to chordToAmplitudes by the callers
Chords == { [modes |-> << [m |-> 1, n |-> 2, amplitude |-> Scale] >>] }

ChordMsgs ==
  { Msg("setChord", [amplitudes |-> << Scale, 0, 0, 0 >>, sustain |-> FALSE]),
    Msg("setChord",
             [amplitudes |-> << 0, -(Scale \div 2), Scale \div 2 >>,
              sustain |-> FALSE]) }
  \cup { Msg("setChord",
             [amplitudes |-> chordToAmplitudes(c, params.mMax, params.mMax),
              sustain |-> TRUE]) : c \in Chords }

Commands ==
  { Msg("excite", [x |-> HalfTurn \div 2, y |-> HalfTurn \div 2,
                   gain |-> Scale]),
    Msg("exciteMode", [m |-> 1, n |-> 1, gain |-> Scale \div 10]),
    Msg("setMic", [x |-> HalfTurn \div 4, y |-> HalfTurn \div 4]),
    Msg("setGain", [gain |-> Scale \div 10]),
    Msg("setDrive", [enabled |-> TRUE, freq |-> 6000, amp |-> Scale,
                     x |-> HalfTurn \div 2, y |-> HalfTurn \div 2]),
    Msg("setChordParams", [attack |-> -(Scale \div 4)]),
    Msg("clearChord", [none |-> TRUE]),
    Msg("reset", [none |-> TRUE]) }
  \cup ChordMsgs

\* a || b on numbers: b when a is 0 (or missing)
OrElse(d, f, old) == IF f \in DOMAIN d /\ d[f] /= 0 THEN d[f] ELSE old

\* a ?? b: b when a is missing
Nullish(d, f, old) == IF f \in DOMAIN d THEN d[f] ELSE old

\* amplitudes[i] || 0, amplitudes a sequence, i a 1-based slot
AmpOrZero(amplitudes, i) == IF i \in DOMAIN amplitudes THEN amplitudes[i] ELSE 0

\* what a message, taken in arrival order, writes to the overwritten fields
LastWrite(lp, msg) ==
  LET n == Len(InitData.modes)
  IN  CASE msg.type = "init" ->
             [lp EXCEPT !.targetAmplitudes = Zeros(n)]
        [] msg.type = "setGain" ->
             [lp EXCEPT !.masterGain = msg.data.gain]
        [] msg.type = "setDrive" ->
             [lp EXCEPT !.driveEnabled = msg.data.enabled]
        [] msg.type = "setChord" ->
             [lp EXCEPT !.chordMode = msg.data.sustain,
                        !.targetAmplitudes =
                           [i \in 1..n |-> AmpOrZero(msg.data.amplitudes, i)]]
        [] msg.type = "setChordParams" ->
             [lp EXCEPT !.chordAttack = Nullish(msg.data, "attack", @)]
        [] msg.type \in {"clearChord", "reset"} ->
             [lp EXCEPT !.chordMode = FALSE, !.targetAmplitudes = Zeros(n)]
        [] OTHER -> lp

\* AudioEngine.init: creates the worklet node and posts 'init'
EngineInitWith(data) ==
  /\ ~workletNode
  /\ posted < MaxPosts
  /\ Len(queue) < MaxQueue
  /\ workletNode' = TRUE
  /\ audioContext' = TRUE
  /\ contexts' = contexts + 1
  /\ nodes' = nodes + 1
  /\ queue' = Append(queue, Msg("init", data))
  /\ posted' = posted + 1
  /\ lastPosted' = LastWrite(lastPosted, Msg("init", data))
  /\ UNCHANGED <<modes, initialized, masterGain, driveVars, drivePhase,
                 chordVars, chordParamVars, peakTracker, renderVars,
                 readyCount, lastCmd, sinceCmd, chordModeBefore, lab,
                 initAwaiting, readyVars, appVars>>

EngineInit == EngineInitWith(InitData)

\* AudioEngine.excite / exciteMode / setMicPosition / setGain / setDrive /
\* setChord / clearChord / setChordParams / reset: post when the node exists
PostFrom(S) ==
  /\ workletNode
  /\ posted < MaxPosts
  /\ Len(queue) < MaxQueue
  /\ \E msg \in S :
       /\ queue' = Append(queue, msg)
       /\ lastPosted' = LastWrite(lastPosted, msg)
  /\ posted' = posted + 1
  /\ UNCHANGED <<modes, initialized, masterGain, driveVars, drivePhase,
                 chordVars, chordParamVars, peakTracker, renderVars,
                 workletNode, readyCount, lastCmd, sinceCmd, chordModeBefore,
                 lab, initVars, appVars>>

Post == PostFrom(Commands)

\* ------------------------------------------------------------------------
\* ModalDrumProcessor.port.onmessage (audio-worklet.js)
\* ------------------------------------------------------------------------
\* The processor's global scope runs one task at a time: a message event is
\* dispatched only while no process() call is executing, oldest first.
ReceiveTorn(t) ==
  /\ queue /= <<>>
  /\ Head(queue).type = t
  /\ queue' = Tail(queue)
  /\ lastCmd' = Head(queue)
  /\ sinceCmd' = 0
  /\ chordModeBefore' = chordMode
  /\ UNCHANGED <<renderVars, mainVars>>

Receive(t) ==
  /\ blockPos = 0
  /\ queue /= <<>>
  /\ Head(queue).type = t
  /\ queue' = Tail(queue)
  /\ lastCmd' = Head(queue)
  /\ sinceCmd' = 0
  /\ chordModeBefore' = chordMode
  /\ UNCHANGED <<renderVars, mainVars>>

\* initModes(data)
initModes(data) ==
  /\ modes' = [i \in DOMAIN data.modes |->
                 [m |-> data.modes[i].m, n |-> data.modes[i].n,
                  freq |-> data.modes[i].freq,
                  omega |-> DivR(FullTurn * data.modes[i].freq, sampleRate),
                  R |-> data.modes[i].R, Rcos |-> data.modes[i].Rcos,
                  R2 |-> data.modes[i].R2, g |-> data.modes[i].g,
                  micGain |-> data.modes[i].micGain,
                  y1 |-> 0, y2 |-> 0, pendingPulse |-> 0,
                  currentAmplitude |-> 0, peakAmp |-> PeakFloor]]
  /\ targetAmplitudes' = Zeros(Len(data.modes))
  /\ currentAmplitudes' = Zeros(Len(data.modes))
  /\ chordPhases' = Zeros(Len(data.modes))
  /\ initialized' = TRUE
  /\ readyCount' = readyCount + 1
  /\ UNCHANGED <<masterGain, driveVars, drivePhase, chordMode, chordParamVars,
                 peakTracker>>

\* gain * modeScale: the strike ignores where it lands
StrikePulseFlat(mode, x, y, gain) ==
  Quot(gain, SqrtScaled(mode.m * mode.m + mode.n * mode.n))

\* gain * phi * modeScale of exciteModes
StrikePulse(mode, x, y, gain) ==
  IF NaN \in {x, y, gain} THEN NaN
  ELSE Quot(Mul(gain, ModeShape(mode.m, mode.n, x, y)),
            SqrtScaled(mode.m * mode.m + mode.n * mode.n))

\* exciteModes(x, y, gain)
exciteModes(x, y, gain) ==
  /\ modes' = [i \in DOMAIN modes |->
                 [modes[i] EXCEPT !.pendingPulse =
                    Plus(@, StrikePulse(modes[i], x, y, gain))]]
  /\ UNCHANGED <<initialized, masterGain, driveVars, drivePhase, chordVars,
                 chordParamVars, peakTracker, readyCount>>

\* exciteSingleMode(m, n, gain): the first mode with these indices
exciteSingleMode(m, n, gain) ==
  LET hit == { i \in DOMAIN modes : modes[i].m = m /\ modes[i].n = n }
      first == CHOOSE i \in hit : \A k \in hit : i <= k
  IN  /\ modes' = IF hit = {} THEN modes
                  ELSE [modes EXCEPT ![first].pendingPulse = @ + gain]
      /\ UNCHANGED <<initialized, masterGain, driveVars, drivePhase, chordVars,
                     chordParamVars, peakTracker, readyCount>>

setChordTargetsOnlyWhenSustained(amplitudes, sustain) ==
  IF modes = <<>> \/ targetAmplitudes = <<>>
  THEN UNCHANGED <<modes, initialized, masterGain, driveVars, drivePhase,
                   chordVars, chordParamVars, peakTracker, readyCount>>
  ELSE /\ chordMode' = sustain
       /\ targetAmplitudes' =
            [i \in DOMAIN targetAmplitudes |->
               IF i <= Len(modes) /\ sustain THEN AmpOrZero(amplitudes, i)
               ELSE IF i <= Len(modes) THEN 0
               ELSE targetAmplitudes[i]]
       /\ modes' = [i \in DOMAIN modes |->
                      IF ~sustain /\ AmpOrZero(amplitudes, i) > 0
                      THEN [modes[i] EXCEPT !.pendingPulse =
                              @ + Mul(amplitudes[i], AccentGain)]
                      ELSE modes[i]]
       /\ UNCHANGED <<initialized, masterGain, driveVars, drivePhase,
                      currentAmplitudes, chordPhases, chordParamVars,
                      peakTracker, readyCount>>

setChordAccentsNonzero(amplitudes, sustain) ==
  IF modes = <<>> \/ targetAmplitudes = <<>>
  THEN UNCHANGED <<modes, initialized, masterGain, driveVars, drivePhase,
                   chordVars, chordParamVars, peakTracker, readyCount>>
  ELSE /\ chordMode' = sustain
       /\ targetAmplitudes' =
            [i \in DOMAIN targetAmplitudes |->
               IF i <= Len(modes) THEN AmpOrZero(amplitudes, i)
               ELSE targetAmplitudes[i]]
       /\ modes' = [i \in DOMAIN modes |->
                      IF ~sustain /\ AmpOrZero(amplitudes, i) /= 0
                      THEN [modes[i] EXCEPT !.pendingPulse =
                              @ + Mul(amplitudes[i], AccentGain)]
                      ELSE modes[i]]
       /\ UNCHANGED <<initialized, masterGain, driveVars, drivePhase,
                      currentAmplitudes, chordPhases, chordParamVars,
                      peakTracker, readyCount>>

\* setChord(amplitudes, sustain)
\* setChord storing the vector it is given as the target array
setChordResizes(amplitudes, sustain) ==
  IF modes = <<>> \/ targetAmplitudes = <<>>
  THEN UNCHANGED <<modes, initialized, masterGain, driveVars, drivePhase,
                   chordVars, chordParamVars, peakTracker, readyCount>>
  ELSE /\ chordMode' = sustain
       /\ targetAmplitudes' = amplitudes
       /\ modes' = [i \in DOMAIN modes |->
                      IF ~sustain /\ AmpOrZero(amplitudes, i) > 0
                      THEN [modes[i] EXCEPT !.pendingPulse =
                              @ + Mul(amplitudes[i], AccentGain)]
                      ELSE modes[i]]
       /\ UNCHANGED <<initialized, masterGain, driveVars, drivePhase,
                      currentAmplitudes, chordPhases, chordParamVars,
                      peakTracker, readyCount>>

\* setChord without 'if (!this.modes || !this.targetAmplitudes) return'
setChordUnguarded(amplitudes, sustain) ==
  /\ chordMode' = sustain
  /\ targetAmplitudes' =
       [i \in DOMAIN targetAmplitudes |->
          IF i <= Len(modes) THEN AmpOrZero(amplitudes, i)
          ELSE targetAmplitudes[i]]
  /\ modes' = [i \in DOMAIN modes |->
                 IF ~sustain /\ AmpOrZero(amplitudes, i) > 0
                 THEN [modes[i] EXCEPT !.pendingPulse =
                         @ + Mul(amplitudes[i], AccentGain)]
                 ELSE modes[i]]
  /\ UNCHANGED <<initialized, masterGain, driveVars, drivePhase,
                 currentAmplitudes, chordPhases, chordParamVars,
                 peakTracker, readyCount>>

setChord(amplitudes, sustain) ==
  IF modes = <<>> \/ targetAmplitudes = <<>>
  THEN UNCHANGED <<modes, initialized, masterGain, driveVars, drivePhase,
                   chordVars, chordParamVars, peakTracker, readyCount>>
  ELSE /\ chordMode' = sustain
       /\ targetAmplitudes' =
            [i \in DOMAIN targetAmplitudes |->
               IF i <= Len(modes) THEN AmpOrZero(amplitudes, i)
               ELSE targetAmplitudes[i]]
       /\ modes' = [i \in DOMAIN modes |->
                      IF ~sustain /\ AmpOrZero(amplitudes, i) > 0
                      THEN [modes[i] EXCEPT !.pendingPulse =
                              @ + Mul(amplitudes[i], AccentGain)]
                      ELSE modes[i]]
       /\ UNCHANGED <<initialized, masterGain, driveVars, drivePhase,
                      currentAmplitudes, chordPhases, chordParamVars,
                      peakTracker, readyCount>>

\* the assignments of clearChord()
ClearChordEffect ==
  IF targetAmplitudes = <<>>
  THEN UNCHANGED <<chordMode, targetAmplitudes>>
  ELSE /\ chordMode' = FALSE
       /\ targetAmplitudes' = Zeros(Len(targetAmplitudes))

\* clearChord()
clearChord ==
  /\ ClearChordEffect
  /\ UNCHANGED <<modes, initialized, masterGain, driveVars, drivePhase,
                 currentAmplitudes, chordPhases, chordParamVars, peakTracker,
                 readyCount>>

setMicPositionClearsPulse(x, y) ==
  /\ modes' = [i \in DOMAIN modes |->
                 [modes[i] EXCEPT !.micGain =
                    ModeShape(modes[i].m, modes[i].n, x, y),
                    !.pendingPulse = 0]]
  /\ UNCHANGED <<initialized, masterGain, driveVars, drivePhase, chordVars,
                 chordParamVars, peakTracker, readyCount>>

\* setMicPosition(x, y)
setMicPosition(x, y) ==
  /\ modes' = [i \in DOMAIN modes |->
                 [modes[i] EXCEPT !.micGain =
                    ModeShape(modes[i].m, modes[i].n, x, y)]]
  /\ UNCHANGED <<initialized, masterGain, driveVars, drivePhase, chordVars,
                 chordParamVars, peakTracker, readyCount>>

resetModesKeepsMemory ==
  IF modes = <<>>
  THEN UNCHANGED <<modes, initialized, masterGain, driveVars, drivePhase,
                   chordVars, chordParamVars, peakTracker, readyCount>>
  ELSE /\ modes' = [i \in DOMAIN modes |->
                      [modes[i] EXCEPT !.pendingPulse = 0,
                                       !.currentAmplitude = 0,
                                       !.peakAmp = PeakFloor]]
       /\ peakTracker' = 0
       /\ ClearChordEffect
       /\ chordPhases' = Zeros(Len(chordPhases))
       /\ UNCHANGED <<initialized, masterGain, driveVars, drivePhase,
                      currentAmplitudes, chordParamVars, readyCount>>

\* resetModes()
resetModes ==
  IF modes = <<>>
  THEN UNCHANGED <<modes, initialized, masterGain, driveVars, drivePhase,
                   chordVars, chordParamVars, peakTracker, readyCount>>
  ELSE /\ modes' = [i \in DOMAIN modes |->
                      [modes[i] EXCEPT !.y1 = 0, !.y2 = 0, !.pendingPulse = 0,
                                       !.currentAmplitude = 0,
                                       !.peakAmp = PeakFloor]]
       /\ peakTracker' = 0
       /\ ClearChordEffect
       /\ chordPhases' = Zeros(Len(chordPhases))
       /\ UNCHANGED <<initialized, masterGain, driveVars, drivePhase,
                      currentAmplitudes, chordParamVars, readyCount>>

\* one action per case of the switch in port.onmessage
OnInit ==
  /\ Receive("init")
  /\ initModes(Head(queue).data)

OnExcite ==
  /\ Receive("excite")
  /\ exciteModes(Head(queue).data.x, Head(queue).data.y, Head(queue).data.gain)

OnExciteMode ==
  /\ Receive("exciteMode")
  /\ exciteSingleMode(Head(queue).data.m, Head(queue).data.n,
                      Head(queue).data.gain)

OnSetMic ==
  /\ Receive("setMic")
  /\ setMicPosition(Head(queue).data.x, Head(queue).data.y)

OnSetGainKeepsMax ==
  /\ Receive("setGain")
  /\ masterGain' = Max(masterGain, Head(queue).data.gain)
  /\ UNCHANGED <<modes, initialized, driveVars, drivePhase, chordVars,
                 chordParamVars, peakTracker, readyCount>>

OnSetGain ==
  /\ Receive("setGain")
  /\ masterGain' = Head(queue).data.gain
  /\ UNCHANGED <<modes, initialized, driveVars, drivePhase, chordVars,
                 chordParamVars, peakTracker, readyCount>>

OnSetDrive ==
  /\ Receive("setDrive")
  /\ LET data == Head(queue).data
     IN  /\ driveEnabled' = data.enabled
         /\ driveFreq' = OrElse(data, "freq", driveFreq)
         /\ driveAmp' = OrElse(data, "amp", driveAmp)
         /\ driveX' = Nullish(data, "x", driveX)
         /\ driveY' = Nullish(data, "y", driveY)
  /\ UNCHANGED <<modes, initialized, masterGain, drivePhase, chordVars,
                 chordParamVars, peakTracker, readyCount>>

OnSetChord ==
  /\ Receive("setChord")
  /\ setChord(Head(queue).data.amplitudes,
              Nullish(Head(queue).data, "sustain", TRUE))

OnSetChordParams ==
  /\ Receive("setChordParams")
  /\ LET data == Head(queue).data
     IN  /\ chordAttack' = Nullish(data, "attack", chordAttack)
         /\ chordRelease' = Nullish(data, "release", chordRelease)
         /\ chordSustainLevel' = Nullish(data, "sustain", chordSustainLevel)
  /\ UNCHANGED <<modes, initialized, masterGain, driveVars, drivePhase,
                 chordVars, peakTracker, readyCount>>

OnClearChord ==
  /\ Receive("clearChord")
  /\ clearChord

OnReset ==
  /\ Receive("reset")
  /\ resetModes

\* ------------------------------------------------------------------------
\* ModalDrumProcessor.process: one iteration of the sample loop
\* ------------------------------------------------------------------------
softLimit(x) == IF Abs(x) < LimiterKnee THEN x ELSE Tanh(x)

\* the chord envelope smoothing step
SmoothStep(target, current, attack, release) ==
  IF target > current THEN Min(target, current + attack)
  ELSE IF target < current THEN Max(target, current - release)
  ELSE current

\* phase += step; if (phase > 2 pi) phase -= 2 pi
WrapPhase(p) == IF p > FullTurn THEN p - FullTurn ELSE p

\* the condition guarding the chord sustain excitation of a mode
SustainGate(cm, chordAmp) == cm /\ chordAmp > ChordThreshold

\* the sine drive sample, shared by all modes
DriveSignal ==
  IF driveEnabled THEN Mul(driveAmp, Sin(drivePhase)) ELSE 0

\* the resonator input of mode j: pending pulse, drive and chord sustain,
\* given the mode's smoothed chord amplitude and whether the chord feeds it
ModeInput(j, chordAmp, fed) ==
  LET mode == modes[j]
  IN  mode.pendingPulse
      + (IF driveEnabled
         THEN Mul(DriveSignal, ModeShape(mode.m, mode.n, driveX, driveY))
         ELSE 0)
      + (IF fed
         THEN Mul(Mul(chordAmp, chordSustainLevel), Sin(chordPhases[j]))
         ELSE 0)

\* the two-pole resonator: y_new from the mode's state and its input
Resonate(mode, x_in) ==
  2 * Mul(mode.Rcos, mode.y1) - Mul(mode.R2, mode.y2) + Mul(mode.g, x_in)

\* the per-mode peak follower
PeakFollow(peakAmp, y_new) == Max(Mul(peakAmp, 9999), Abs(y_new))

\* the body of the loop without 'mode.pendingPulse = 0'
ModeStepKeepsPulse(j, y_new, peakAmp) ==
  [modes[j] EXCEPT !.y2 = modes[j].y1, !.y1 = y_new, !.peakAmp = peakAmp,
                   !.currentAmplitude = Quot(y_new, Max(peakAmp, PeakFloor))]

\* the body of the loop over the modes, for mode j: the mode after the sample
ModeStep(j, y_new, peakAmp) ==
  [modes[j] EXCEPT !.y2 = modes[j].y1, !.y1 = y_new, !.pendingPulse = 0,
                   !.peakAmp = peakAmp,
                   !.currentAmplitude = Quot(y_new, Max(peakAmp, PeakFloor))]

\* the same, with the peak follower applied to y_new
ModeUpdate(j, y_new) ==
  ModeStep(j, y_new, PeakFollow(modes[j].peakAmp, y_new))

\* the loop over the modes: the bank after the sample, modes 1..k, given the
\* smoothed chord amplitudes and the chord gates of this sample
RECURSIVE ModeLoop(_, _, _)
ModeLoop(k, chordAmps, fed) ==
  IF k = 0 THEN << >>
  ELSE Append(ModeLoop(k - 1, chordAmps, fed),
              ModeUpdate(k, Resonate(modes[k],
                                     ModeInput(k, chordAmps[k], fed[k]))))

\* sample = the loudest mode's micGain * y_new instead of the sum
MixLoudest(bank, k) ==
  IF k = 0 THEN 0
  ELSE LET term == [j \in 1..k |-> Mul(bank[j].micGain, bank[j].y1)]
           loud == CHOOSE j \in 1..k : \A i \in 1..k : Abs(term[j]) >= Abs(term[i])
       IN  term[loud]

\* sample += mode.micGain * y_new, over the modes 1..k of the updated bank
RECURSIVE Mix(_, _)
Mix(bank, k) ==
  IF k = 0 THEN 0 ELSE Mix(bank, k - 1) + Mul(bank[k].micGain, bank[k].y1)

\* the auto-gain normalising to full scale instead of 0.5
AutoGainFullScale(peak) ==
  IF peak > AutoGainThreshold THEN Quot(Scale, peak) ELSE Scale

\* auto-gain and soft limiter, given the mixed sample and the new peak
AutoGain(peak) ==
  IF peak > AutoGainThreshold THEN Quot(AutoGainTarget, peak) ELSE Scale
\* the limiter applied before the master gain instead of after it
ConditionedGainLast(sample, peak, gain) ==
  Mul(softLimit(Mul(sample, Min(AutoGain(peak), AutoGainMax))), gain)

Conditioned(sample, peak, gain) ==
  softLimit(Mul(Mul(sample, Min(AutoGain(peak), AutoGainMax)), gain))

\* sendAmplitudeSnapshot(): currentAmplitude of every mode of the bank
sendAmplitudeSnapshot(bank) == [i \in DOMAIN bank |-> bank[i].currentAmplitude]

\* this.sampleCounter++ reaches snapshotInterval one sample late
SnapshotDueLate(counter) == counter + 1 > snapshotInterval

\* this.sampleCounter++; if (this.sampleCounter >= this.snapshotInterval)
SnapshotDue(counter) == counter + 1 >= snapshotInterval

\* one iteration of the sample loop, in a run of at most limit process() calls
ProcessSampleUpTo(limit) ==
  /\ initialized /\ modes /= <<>>
  /\ blockPos > 0 \/ blocks < limit
  /\ currentAmplitudes' =
       [j \in DOMAIN modes |->
          SmoothStep(targetAmplitudes[j], currentAmplitudes[j],
                     chordAttack, chordRelease)]
  /\ chordFed' = [j \in DOMAIN modes |->
                    SustainGate(chordMode, currentAmplitudes'[j])]
  /\ chordPhases' = [j \in DOMAIN modes |->
                       IF chordFed'[j]
                       THEN WrapPhase(chordPhases[j] + modes[j].omega)
                       ELSE chordPhases[j]]
  /\ modes' = ModeLoop(Len(modes), currentAmplitudes', chordFed')
  /\ peakTracker' = Max(Mul(peakTracker, peakDecay),
                        Abs(Mix(modes', Len(modes))))
  /\ channel' = Append(IF blockPos = 0 THEN << >> ELSE channel,
                        Conditioned(Mix(modes', Len(modes)), peakTracker',
                                    masterGain))
  /\ drivePhase' = IF driveEnabled
                   THEN WrapPhase(drivePhase
                          + Div(FullTurn * driveFreq, sampleRate))
                   ELSE drivePhase
  /\ sampleCounter' = IF SnapshotDue(sampleCounter) THEN 0
                      ELSE sampleCounter + 1
  /\ snapshotCount' = IF SnapshotDue(sampleCounter)
                      THEN snapshotCount + 1 ELSE snapshotCount
  /\ snapshot' = IF SnapshotDue(sampleCounter)
                 THEN sendAmplitudeSnapshot(modes') ELSE snapshot
  /\ samples' = samples + 1
  /\ blockPos' = IF blockPos + 1 = BlockLen THEN 0 ELSE blockPos + 1
  /\ blocks' = IF blockPos = 0 THEN blocks + 1 ELSE blocks
  /\ sinceCmd' = sinceCmd + 1
  /\ UNCHANGED <<initialized, masterGain, driveVars, chordMode,
                 targetAmplitudes, chordParamVars, queue, mainVars,
                 readyCount, lastCmd, chordModeBefore>>

ProcessSample == ProcessSampleUpTo(MaxBlocks)

\* process() before initialization returns at once
ProcessIdle ==
  /\ ~(initialized /\ modes /= <<>>)
  /\ blockPos = 0
  /\ blocks < MaxBlocks
  /\ blocks' = blocks + 1
  /\ UNCHANGED <<modes, initialized, sampleCounter, masterGain, driveVars,
                 drivePhase, chordVars, chordParamVars, peakTracker, blockPos,
                 channel, chordFed, queue, mainVars, readyCount,
                 snapshotCount, snapshot, samples, lastCmd, sinceCmd,
                 chordModeBefore>>

Next ==
  \/ EngineInit
  \/ Post
  \/ OnInit
  \/ OnExcite
  \/ OnExciteMode
  \/ OnSetMic
  \/ OnSetGain
  \/ OnSetDrive
  \/ OnSetChord
  \/ OnSetChordParams
  \/ OnClearChord
  \/ OnReset
  \/ ProcessSample
  \/ ProcessIdle

Spec == Init /\ [][Next]_vars

TypeOK == blockPos \in 0..(BlockLen - 1)

\* ------------------------------------------------------------------------
\* The processor's port driven by any client of the engine: every message
\* type the main thread posts, including the ones the switch has no case for
\* ------------------------------------------------------------------------
\* params.decayBase values a client may construct the engine with
DecayBases == { params.decayBaseMs, -params.decayBaseMs }

\* the type strings the switch in port.onmessage has a case for
HandledTypes == { "init", "excite", "exciteMode", "setMic", "setGain",
                  "setDrive", "setChord", "setChordParams", "clearChord",
                  "reset" }

\* AudioEngine.exciteModes(amplitudes): one impulse for the mode in slot i
ImpulseAmps(i, gain) ==
  [k \in 1..(params.mMax * params.mMax) |-> IF k = i THEN gain ELSE 0]

PortCommands ==
  { Msg("init", InitData),
    Msg("setDrive", [enabled |-> TRUE, freq |-> 6000, amp |-> Scale,
                     x |-> HalfTurn \div 2, y |-> HalfTurn \div 2]),
    Msg("setDrive", [enabled |-> FALSE, freq |-> 0, amp |-> 0, x |-> 0,
                     y |-> 0]),
    Msg("setChord", [amplitudes |-> ImpulseAmps(1, Scale), sustain |-> TRUE]),
    Msg("exciteModes", [amplitudes |-> ImpulseAmps(2, Scale \div 2)]) }

EngineInitConfig == \E d \in DecayBases : EngineInitWith(InitDataFor(d))

PostPort == PostFrom(PortCommands)

\* a message whose type matches no case: the handler returns, nothing changes
OnUnhandled ==
  /\ queue /= <<>>
  /\ Head(queue).type \notin HandledTypes
  /\ Receive(Head(queue).type)
  /\ UNCHANGED <<modes, initialized, masterGain, driveVars, drivePhase,
                 chordVars, chordParamVars, peakTracker, readyCount>>

NextPort ==
  \/ EngineInitConfig
  \/ PostPort
  \/ OnInit
  \/ OnSetDrive
  \/ OnSetChord
  \/ OnUnhandled
  \/ ProcessSample
  \/ ProcessIdle

SpecPort == Init /\ [][NextPort]_vars

\* ------------------------------------------------------------------------
\* Strikes from the application: ModalHarmonicApp.exciteAt (main.js) and
\* direct calls of AudioEngine.excite
\* ------------------------------------------------------------------------
\* Math.max(0.05, Math.min(0.95, x)); both return NaN for a NaN operand
ClampStrike(x) ==
  IF x = NaN THEN NaN
  ELSE Max(HalfTurn \div 20, Min(HalfTurn - HalfTurn \div 20, x))

\* positions and gains a caller may pass: inside the plate, outside it, NaN
StrikeCoords == { HalfTurn \div 2, -HalfTurn, 2 * HalfTurn, NaN }
StrikeGains == { Scale, NaN }

\* exciteAt(x, y): clamps, then excite(x, y) with the default click gain
ExciteAt ==
  \E x \in StrikeCoords :
    PostFrom({ Msg("excite", [x |-> ClampStrike(x),
                              y |-> ClampStrike(HalfTurn \div 2),
                              gain |-> params.clickGain]) })

\* AudioEngine.excite(x, y, gain)
Excite ==
  \E gain \in StrikeGains :
    PostFrom({ Msg("excite", [x |-> HalfTurn \div 2, y |-> HalfTurn \div 2,
                              gain |-> gain]) })

NextStrike ==
  \/ EngineInit
  \/ ExciteAt
  \/ Excite
  \/ OnInit
  \/ OnExcite
  \/ ProcessIdle

SpecStrike == Init /\ [][NextStrike]_vars

\* ------------------------------------------------------------------------
\* A long run: one command after 'init', delivered before the next process()
\* call, and enough process() calls for a snapshot to fall due
\* ------------------------------------------------------------------------
LongBlocks == snapshotInterval \div BlockLen + MaxBlocks

LongCommands ==
  { Msg("exciteMode", [m |-> params.mMax, n |-> params.mMax, gain |-> Scale]),
    Msg("reset", [none |-> TRUE]) }

PostLong ==
  /\ posted = 1
  /\ PostFrom(LongCommands)

ProcessSampleLong ==
  /\ blockPos > 0 \/ queue = << >>
  /\ ProcessSampleUpTo(LongBlocks)

NextLong ==
  \/ EngineInit
  \/ PostLong
  \/ OnInit
  \/ OnExciteMode
  \/ OnReset
  \/ ProcessSampleLong
  \/ ProcessIdle

SpecLong == Init /\ [][NextLong]_vars

\* ------------------------------------------------------------------------
\* The superposition experiment: a client strikes mode a alone, mode b alone,
\* then both, each time after a Reset, and keeps what one process() call
\* produced
\* ------------------------------------------------------------------------
SuperBlocks == MaxBlocks + 4
SuperGains == { Scale, -(Scale \div 2) }

\* AudioEngine.exciteMode(m, n, gain) for the mode in slot i
StrikeSlot(i, gain) ==
  Msg("exciteMode", [m |-> InitData.modes[i].m, n |-> InitData.modes[i].n,
                     gain |-> gain])

\* AudioEngine.reset() followed by the strikes of a phase
SuperScript(l) ==
  << Msg("reset", [none |-> TRUE]) >>
    \o (IF l.phase \in {1, 3} THEN << StrikeSlot(l.a, l.ga) >> ELSE << >>)
    \o (IF l.phase \in {2, 3} THEN << StrikeSlot(l.b, l.gb) >> ELSE << >>)

SuperPost ==
  /\ workletNode
  /\ readyCount > 0
  /\ queue = << >>
  /\ lab.phase < 3
  /\ Len(lab.log) = lab.phase
  /\ \E a, b \in DOMAIN InitData.modes, ga, gb \in SuperGains :
       /\ a < b
       /\ lab.phase > 0 => <<a, b, ga, gb>> = <<lab.a, lab.b, lab.ga, lab.gb>>
       /\ lab' = [lab EXCEPT !.phase = @ + 1, !.a = a, !.b = b, !.ga = ga,
                             !.gb = gb]
  /\ queue' = SuperScript(lab')
  /\ lastPosted' = LastWrite(lastPosted, Msg("reset", [none |-> TRUE]))
  /\ UNCHANGED <<modes, initialized, masterGain, driveVars, drivePhase,
                 chordVars, chordParamVars, peakTracker, renderVars,
                 workletNode, posted, readyCount, lastCmd, sinceCmd,
                 chordModeBefore, initVars, appVars>>

\* the client reads the output block, and the bank behind it
SuperRecord ==
  /\ lab.phase > 0
  /\ Len(lab.log) = lab.phase - 1
  /\ queue = << >>
  /\ blockPos = 0
  /\ lastCmd.type = "exciteMode"
  /\ sinceCmd = BlockLen
  /\ lab' = [lab EXCEPT !.log =
               Append(@, [out |-> channel,
                          y1 |-> [j \in DOMAIN modes |-> modes[j].y1],
                          y2 |-> [j \in DOMAIN modes |-> modes[j].y2],
                          mix |-> Mix(modes, Len(modes))])]
  /\ UNCHANGED <<modes, initialized, masterGain, driveVars, drivePhase,
                 chordVars, chordParamVars, peakTracker, renderVars, queue,
                 workletNode, posted, lastPosted, readyCount, lastCmd,
                 sinceCmd, chordModeBefore, initVars, appVars>>

\* one process() call after the last delivered message of a phase
ProcessSampleSuper ==
  /\ blockPos > 0 \/ (queue = << >> /\ sinceCmd < BlockLen)
  /\ ProcessSampleUpTo(SuperBlocks)

NextSuper ==
  \/ EngineInit
  \/ SuperPost
  \/ SuperRecord
  \/ OnInit
  \/ OnExciteMode
  \/ OnReset
  \/ ProcessSampleSuper
  \/ ProcessIdle

SpecSuper == Init /\ [][NextSuper]_vars

\* ------------------------------------------------------------------------
\* The output stage: strikes at the centre under master gains below, at and
\* above the limiter's knee
\* ------------------------------------------------------------------------
OutputCommands ==
  { Msg("excite", [x |-> HalfTurn \div 2, y |-> HalfTurn \div 2,
                   gain |-> Scale]),
    Msg("setGain", [gain |-> Scale]),
    Msg("setGain", [gain |-> 2 * Scale]) }

PostOutput == PostFrom(OutputCommands)

NextOutput ==
  \/ EngineInit
  \/ PostOutput
  \/ OnInit
  \/ OnExcite
  \/ OnSetGain
  \/ ProcessSample
  \/ ProcessIdle

SpecOutput == Init /\ [][NextOutput]_vars

\* ------------------------------------------------------------------------
\* The bank's arrays: chord vectors shorter and longer than the bank, and a
\* second 'init' for a bank of another size
\* ------------------------------------------------------------------------
\* the 'init' data of a 1 x 1 bank
SmallInitData ==
  serializeForWorklet(
    setMicPositionState(
      createModes(1, 1, params.f0, sampleRate, params.decayBaseMs),
      params.micX, params.micY))

BankCommands ==
  { Msg("init", SmallInitData),
    Msg("setChord",
        [amplitudes |-> [i \in 1..(Len(InitData.modes) - 1) |-> Scale \div 2],
         sustain |-> FALSE]),
    Msg("setChord",
        [amplitudes |-> [i \in 1..(Len(InitData.modes) + 1) |-> Scale \div 2],
         sustain |-> TRUE]),
    Msg("clearChord", [none |-> TRUE]),
    Msg("reset", [none |-> TRUE]) }

PostBank == PostFrom(BankCommands)

NextBank ==
  \/ EngineInit
  \/ PostBank
  \/ OnInit
  \/ OnSetChord
  \/ OnClearChord
  \/ OnReset
  \/ ProcessSample
  \/ ProcessIdle

SpecBank == Init /\ [][NextBank]_vars

\* ------------------------------------------------------------------------
\* The drive oscillator under the frequencies setDrive passes on unchecked
\* ------------------------------------------------------------------------
DriveCommands ==
  { Msg("setDrive", [enabled |-> TRUE, freq |-> f, amp |-> Scale,
                     x |-> HalfTurn \div 2, y |-> HalfTurn \div 2]) :
      f \in {6000, 2 * sampleRate + sampleRate \div 2, -6000} }

PostDrive == PostFrom(DriveCommands)

NextDrive ==
  \/ EngineInit
  \/ PostDrive
  \/ OnInit
  \/ OnSetDrive
  \/ ProcessSample
  \/ ProcessIdle

SpecDrive == Init /\ [][NextDrive]_vars

\* ------------------------------------------------------------------------
\* AudioEngine.init step by step: the call up to 'await addModule', and its
\* continuation, with any other call of the engine in between
\* ------------------------------------------------------------------------
MaxContexts == 2    \* AudioContext objects created

\* init() without 'if (this.audioContext) return'
initNeverReturns == FALSE

\* if (this.audioContext) return
initReturns == audioContext

\* init() up to the await: the context is created and the call suspends
InitCall ==
  /\ ~initReturns
  /\ contexts < MaxContexts
  /\ audioContext' = TRUE
  /\ contexts' = contexts + 1
  /\ initAwaiting' = initAwaiting + 1
  /\ UNCHANGED <<nodes, readyVars, audioVars, appVars>>

\* addModule resolved: the node is created and, in the same task, the bank
\* is built and 'init' is posted
InitResume ==
  /\ initAwaiting > 0
  /\ initAwaiting' = initAwaiting - 1
  /\ workletNode' = TRUE
  /\ nodes' = nodes + 1
  /\ queue' = Append(queue, Msg("init", InitData))
  /\ posted' = posted + 1
  /\ lastPosted' = LastWrite(lastPosted, Msg("init", InitData))
  /\ UNCHANGED <<audioContext, contexts, readyVars, processorVars,
                 appVars>>

\* addModule rejected: init() throws at the await
InitRejected ==
  /\ initAwaiting > 0
  /\ initAwaiting' = initAwaiting - 1
  /\ UNCHANGED <<audioContext, contexts, nodes, readyVars, audioVars,
                 appVars>>

NextInit ==
  \/ InitCall
  \/ InitResume
  \/ InitRejected
  \/ Post
  \/ OnInit
  \/ OnExcite
  \/ OnExciteMode
  \/ OnSetMic
  \/ OnSetGain
  \/ OnSetDrive
  \/ OnSetChord
  \/ OnSetChordParams
  \/ OnClearChord
  \/ OnReset

SpecInit == Init /\ [][NextInit]_vars

\* ------------------------------------------------------------------------
\* The Euclidean sequencer's pattern: the calls of the sequencer panel and the
\* rhythm presets
\* ------------------------------------------------------------------------
MaxSteps == 32
playVars == <<currentStep, isPlaying, intervalId, clearTimers, triggers, stops>>
patternVars == <<steps, pulses, rotation, pattern, manualOverrides>>

RhythmPresets ==
  { [steps |-> 16, pulses |-> 5, rotation |-> 0],    \* son-clave
    [steps |-> 16, pulses |-> 5, rotation |-> 3],    \* rumba
    [steps |-> 16, pulses |-> 5, rotation |-> 2],    \* bossa
    [steps |-> 8, pulses |-> 3, rotation |-> 0],     \* tresillo
    [steps |-> 8, pulses |-> 5, rotation |-> 0],     \* cinquillo
    [steps |-> 4, pulses |-> 4, rotation |-> 0],     \* four-floor
    [steps |-> 4, pulses |-> 2, rotation |-> 1],     \* backbeat
    [steps |-> 6, pulses |-> 2, rotation |-> 0],     \* waltz
    [steps |-> 9, pulses |-> 4, rotation |-> 0],     \* aksak
    [steps |-> 13, pulses |-> 5, rotation |-> 0] }   \* outside

\* the fields after a call, with the pattern regenerated from them
Regenerated(n, p, r, overrides) ==
  /\ steps' = n
  /\ pulses' = p
  /\ rotation' = r
  /\ manualOverrides' = overrides
  /\ pattern' = regeneratePattern(p, n, r, overrides)
  /\ UNCHANGED <<audioVars, initVars, articVars, playVars, seqVars>>

\* the override set after toggleStep's has / delete / add
toggled(overrides, index) ==
  IF index \in overrides THEN overrides \ {index}
  ELSE overrides \cup {index}

toggleStep(index) ==
  IF index < 0 \/ index >= steps THEN UNCHANGED vars
  ELSE Regenerated(steps, pulses, rotation, toggled(manualOverrides, index))

setStep(index, active) ==
  IF index < 0 \/ index >= steps THEN UNCHANGED vars
  ELSE Regenerated(steps, pulses, rotation,
                   IF active /= rotateArray(bjorklund(pulses, steps),
                                            rotation)[index + 1]
                   THEN manualOverrides \cup {index}
                   ELSE manualOverrides \ {index})

clearOverrides == Regenerated(steps, pulses, rotation, {})

setSteps(n) ==
  Regenerated(Max(1, Min(MaxSteps, n)),
              Min(pulses, Max(1, Min(MaxSteps, n))),
              Rem(rotation, Max(1, Min(MaxSteps, n))), {})

setPulses(k) == Regenerated(steps, Max(0, Min(steps, k)), rotation, {})

setRotation(r) ==
  Regenerated(steps, pulses, Rem(Rem(r, steps) + steps, steps), {})

loadRhythmPreset(preset) ==
  Regenerated(preset.steps, preset.pulses, preset.rotation, {})

ToggleStep == \E index \in {steps - 1, steps} : toggleStep(index)
SetStep == \E active \in BOOLEAN : setStep(steps - 1, active)
ClearOverrides == manualOverrides /= {} /\ clearOverrides
SetSteps == \E n \in {steps - 1, steps + 1} : setSteps(n)
SetPulses == \E k \in {pulses - 1, pulses + 1} : setPulses(k)
SetRotation == \E r \in {rotation - 1, rotation + 1} : setRotation(r)
LoadRhythmPresetFrom(S) == \E preset \in S : loadRhythmPreset(preset)
LoadRhythmPreset == LoadRhythmPresetFrom(RhythmPresets)

NextPattern ==
  \/ ToggleStep
  \/ SetStep
  \/ ClearOverrides
  \/ SetSteps
  \/ SetPulses
  \/ SetRotation
  \/ LoadRhythmPreset

SpecPattern == Init /\ [][NextPattern]_vars

\* ------------------------------------------------------------------------
\* ChordArticulator (chord-articulator.js) and the timers it starts
\* ------------------------------------------------------------------------
MaxPlays == 2       \* playChord and stop calls
MaxTimers == 5      \* timers started
MaxNotes == 9       \* arpeggio notes kept in the log
ArticNotes == 2     \* the log kept while every call is allowed

\* a call of the engine's posting methods: nothing is sent without a node
EngineSend(msg) ==
  IF workletNode
  THEN /\ queue' = Append(queue, msg)
       /\ posted' = posted + 1
       /\ lastPosted' = LastWrite(lastPosted, msg)
  ELSE UNCHANGED portVars

ArticChords ==
  << [modes |-> << [m |-> 2, n |-> 2, amplitude |-> Scale],
                   [m |-> 1, n |-> 1, amplitude |-> Scale],
                   [m |-> 2, n |-> 1, amplitude |-> Scale],
                   [m |-> 1, n |-> 2, amplitude |-> Scale] >>],
     [modes |-> << [m |-> 1, n |-> 2, amplitude |-> Scale],
                   [m |-> 1, n |-> 1, amplitude |-> Scale] >>],
     [modes |-> << >>] >>

\* gridIndex of sortModesByFrequency
gridIndex(md) == (md.n - 1) * params.mMax + (md.m - 1)

\* Array.prototype.sort by a.freq - b.freq (stable): freq grows with
\* m*m + n*n
RECURSIVE InsertByFreq(_, _)
InsertByFreq(sorted, md) ==
  IF sorted = << >> THEN << md >>
  ELSE IF md.m * md.m + md.n * md.n
            < sorted[Len(sorted)].m * sorted[Len(sorted)].m
              + sorted[Len(sorted)].n * sorted[Len(sorted)].n
       THEN Append(InsertByFreq(SubSeq(sorted, 1, Len(sorted) - 1), md),
                   sorted[Len(sorted)])
       ELSE Append(sorted, md)

RECURSIVE SortByFreq(_)
SortByFreq(ms) ==
  IF ms = << >> THEN << >>
  ELSE InsertByFreq(SortByFreq(SubSeq(ms, 1, Len(ms) - 1)), ms[Len(ms)])

\* sortModesByFrequency with Direction.LOW_TO_HIGH
sortModesByFrequency(ms) ==
  [i \in 1..Len(ms) |->
     [m |-> SortByFreq(ms)[i].m, n |-> SortByFreq(ms)[i].n,
      amplitude |-> SortByFreq(ms)[i].amplitude,
      gridIndex |-> gridIndex(SortByFreq(ms)[i])]]

\* 60000 / arpeggioRate, in microseconds
IntervalMs(rate) == (60000 * 1000) \div rate

Range(f) == {f[i] : i \in DOMAIN f}

\* stop(): the timeouts left after clearTimeout on every scheduled id
stopTimeouts == {t \in timeouts : t.id \notin Range(scheduledTimeouts)}

\* stop() without clearInterval
stopIntervalsKept == intervals

\* stop(): the intervals left after clearInterval on the arpeggio's id
stopIntervals ==
  IF arpeggioInterval /= 0
  THEN {i \in intervals : i.id /= arpeggioInterval}
  ELSE intervals

\* the single-mode amplitude array of playStrum and triggerArpeggioNote
NoteAmps(md) == ImpulseAmps(md.gridIndex + 1, OrElse(md, "amplitude", Scale))

\* the amplitude array of playInstant
InstantAmps(sorted) ==
  [k \in 1..(params.mMax * params.mMax) |->
     IF \E i \in 1..Len(sorted) : sorted[i].gridIndex + 1 = k
     THEN Scale ELSE 0]

\* stop(), then playInstant
playInstant(sorted) ==
  /\ EngineSend(Msg("setChord",
                    [amplitudes |-> InstantAmps(sorted), sustain |-> TRUE]))
  /\ scheduledTimeouts' = << >>
  /\ arpeggioInterval' = 0
  /\ timeouts' = stopTimeouts
  /\ intervals' = stopIntervals
  /\ UNCHANGED <<arpeggioIndex, arpeggioDirection, timerIds, notes>>

\* stop(), then playStrum: one setTimeout per mode, in sorted order
playStrum(sorted, epoch) ==
  /\ timerIds + Len(sorted) <= MaxTimers
  /\ scheduledTimeouts' = [i \in 1..Len(sorted) |-> timerIds + i]
  /\ timeouts' = stopTimeouts
                   \cup {[id |-> timerIds + i, epoch |-> epoch,
                          md |-> sorted[i]] : i \in 1..Len(sorted)}
  /\ timerIds' = timerIds + Len(sorted)
  /\ arpeggioInterval' = 0
  /\ intervals' = stopIntervals
  /\ UNCHANGED <<arpeggioIndex, arpeggioDirection, notes, portVars>>

\* stop(), then playArpeggio: the first note at once, the others from a
\* setInterval
playArpeggio(sorted, epoch, rate) ==
  IF Len(sorted) = 0
  THEN /\ scheduledTimeouts' = << >>
       /\ arpeggioInterval' = 0
       /\ timeouts' = stopTimeouts
       /\ intervals' = stopIntervals
       /\ UNCHANGED <<arpeggioIndex, arpeggioDirection, timerIds, notes,
                      portVars>>
  ELSE /\ timerIds < MaxTimers
       /\ arpeggioIndex' = 0
       /\ arpeggioDirection' = 1
       /\ EngineSend(Msg("exciteModes", [amplitudes |-> NoteAmps(sorted[1])]))
       /\ notes' = << 0 >>
       /\ arpeggioInterval' = timerIds + 1
       /\ timerIds' = timerIds + 1
       /\ intervals' = stopIntervals
                         \cup {[id |-> timerIds + 1, epoch |-> epoch,
                                period |-> IntervalMs(rate)]}
       /\ scheduledTimeouts' = << >>
       /\ timeouts' = stopTimeouts

playChord(c) ==
  /\ played < MaxPlays
  /\ played' = played + 1
  /\ lastChord' = c
  /\ currentChord' = c
  /\ IF Len(ArticChords[c].modes) = 0
     THEN /\ scheduledTimeouts' = << >>
          /\ arpeggioInterval' = 0
          /\ timeouts' = stopTimeouts
          /\ intervals' = stopIntervals
          /\ UNCHANGED <<sortedModes, arpeggioIndex, arpeggioDirection,
                         timerIds, notes, portVars>>
     ELSE /\ sortedModes' = sortModesByFrequency(ArticChords[c].modes)
          /\ CASE articulation = "instant" -> playInstant(sortedModes')
               [] articulation = "strum" ->
                    playStrum(sortedModes', played')
               [] articulation = "arpeggio" ->
                    playArpeggio(sortedModes', played', arpeggioRate)
  /\ UNCHANGED <<articulation, arpeggioPattern, arpeggioRate, processorVars,
                 workletNode, initVars, euclidVars,
                 seqVars>>

stop ==
  /\ played < MaxPlays
  /\ played' = played + 1
  /\ lastChord' = 0
  /\ currentChord' = 0
  /\ scheduledTimeouts' = << >>
  /\ arpeggioInterval' = 0
  /\ timeouts' = stopTimeouts
  /\ intervals' = stopIntervals
  /\ UNCHANGED <<articulation, arpeggioPattern, arpeggioRate, arpeggioIndex,
                 arpeggioDirection, sortedModes, timerIds, notes, audioVars,
                 initVars, euclidVars,
                 seqVars>>

setMode(a) ==
  /\ articulation' = a
  /\ UNCHANGED <<arpeggioPattern, arpeggioRate, scheduledTimeouts,
                 arpeggioInterval, arpeggioIndex, arpeggioDirection,
                 currentChord, sortedModes, timeouts, intervals, timerIds,
                 played, lastChord, notes, audioVars, initVars, euclidVars,
                 seqVars>>

setArpeggioPattern(p) ==
  /\ arpeggioPattern' = p
  /\ UNCHANGED <<articulation, arpeggioRate, scheduledTimeouts,
                 arpeggioInterval, arpeggioIndex, arpeggioDirection,
                 currentChord, sortedModes, timeouts, intervals, timerIds,
                 played, lastChord, notes, audioVars, initVars, euclidVars,
                 seqVars>>

setArpeggioRate(bpm) ==
  /\ arpeggioRate' = Max(30, Min(480, bpm))
  /\ IF arpeggioInterval /= 0 /\ currentChord /= 0
     THEN /\ currentChord' = 0
          /\ playArpeggio(sortedModes, played, arpeggioRate')
     ELSE UNCHANGED <<scheduledTimeouts, arpeggioInterval, arpeggioIndex,
                      arpeggioDirection, currentChord, timeouts, intervals,
                      timerIds, notes, portVars>>
  /\ UNCHANGED <<articulation, arpeggioPattern, sortedModes, played,
                 lastChord, processorVars, workletNode, initVars, euclidVars,
                 seqVars>>

\* advanceArpeggio stepping upward without the modulo or the turn
advanceArpeggioNoWrap(p, index, direction, numModes, r) ==
  [index |-> index + 1, direction |-> direction]

\* advanceArpeggio: the index and direction after it; random draws r
advanceArpeggio(p, index, direction, numModes, r) ==
  CASE p = "up" ->
         [index |-> (index + 1) % numModes, direction |-> direction]
    [] p = "down" ->
         [index |-> (index - 1 + numModes) % numModes,
          direction |-> direction]
    [] p = "upDown" ->
         IF index + direction >= numModes - 1
         THEN [index |-> numModes - 1, direction |-> -1]
         ELSE IF index + direction <= 0
              THEN [index |-> 0, direction |-> 1]
              ELSE [index |-> index + direction, direction |-> direction]
    [] p = "downUp" ->
         IF index - direction <= 0
         THEN [index |-> 0, direction |-> -1]
         ELSE IF index - direction >= numModes - 1
              THEN [index |-> numModes - 1, direction |-> 1]
              ELSE [index |-> index - direction, direction |-> direction]
    [] p = "random" -> [index |-> r, direction |-> direction]

\* triggerArpeggioNote with the position logged, at most limit positions
triggerArpeggioNote(index, limit) ==
  IF index + 1 \in DOMAIN sortedModes
  THEN /\ EngineSend(Msg("exciteModes",
                         [amplitudes |-> NoteAmps(sortedModes[index + 1])]))
       /\ notes' = IF Len(notes) < limit THEN Append(notes, index) ELSE notes
  ELSE UNCHANGED <<notes, portVars>>

\* a strum timeout fires: timeouts of one strum fire in the order of their
\* delays, which is the order they were set in
TimeoutFire ==
  \E t \in timeouts :
    /\ \A u \in timeouts : u.id >= t.id
    /\ timeouts' = timeouts \ {t}
    /\ EngineSend(Msg("exciteModes", [amplitudes |-> NoteAmps(t.md)]))
    /\ UNCHANGED <<articulation, arpeggioPattern, arpeggioRate,
                   scheduledTimeouts, arpeggioInterval, arpeggioIndex,
                   arpeggioDirection, currentChord, sortedModes, intervals,
                   timerIds, played, lastChord, notes, processorVars,
                   workletNode, initVars, euclidVars,
                 seqVars>>

\* an arpeggio interval fires
IntervalFireUpTo(limit) ==
  \E i \in intervals, r \in 0..Max(0, Len(sortedModes) - 1) :
    /\ Len(sortedModes) > 0
    /\ arpeggioPattern /= "random" => r = 0
    /\ arpeggioIndex' = advanceArpeggio(arpeggioPattern, arpeggioIndex,
                                        arpeggioDirection, Len(sortedModes),
                                        r).index
    /\ arpeggioDirection' = advanceArpeggio(arpeggioPattern, arpeggioIndex,
                                            arpeggioDirection,
                                            Len(sortedModes), r).direction
    /\ triggerArpeggioNote(arpeggioIndex', limit)
    /\ UNCHANGED <<articulation, arpeggioPattern, arpeggioRate,
                   scheduledTimeouts, arpeggioInterval, currentChord,
                   sortedModes, timeouts, intervals, timerIds, played,
                   lastChord, processorVars, workletNode, initVars,
                   euclidVars,
                 seqVars>>

PlayChord == \E c \in 1..Len(ArticChords) : playChord(c)
Stop == stop
SetMode ==
  \E a \in {"instant", "strum", "arpeggio"} : a /= articulation /\ setMode(a)
SetArpeggioPatternFrom(S) ==
  \E p \in S : p /= arpeggioPattern /\ setArpeggioPattern(p)
SetArpeggioPattern ==
  SetArpeggioPatternFrom({"up", "down", "upDown", "downUp", "random"})
SetArpeggioRate == \E bpm \in {20, 240, 500} : setArpeggioRate(bpm)
IntervalFire == IntervalFireUpTo(ArticNotes)

NextArtic ==
  \/ PlayChord
  \/ Stop
  \/ SetMode
  \/ SetArpeggioPattern
  \/ SetArpeggioRate
  \/ TimeoutFire
  \/ IntervalFire

SpecArtic == Init /\ [][NextArtic]_vars

\* One arpeggio at a time, its pattern chosen before it starts and every
\* note of it logged
SetArpeggioPatternIdle ==
  /\ intervals = {}
  /\ SetArpeggioPatternFrom({"up", "down", "upDown", "downUp"})
IntervalFireLogged == IntervalFireUpTo(MaxNotes)

NextArp ==
  \/ SetMode
  \/ SetArpeggioPatternIdle
  \/ PlayChord
  \/ Stop
  \/ IntervalFireLogged

SpecArp == Init /\ [][NextArp]_vars

\* ------------------------------------------------------------------------
\* The Euclidean sequencer's playback: play, pause, stop, the scheduler and
\* the timeouts of triggerSound
\* ------------------------------------------------------------------------
MaxPulses == 2      \* pulses that call setChord
MaxStops == 1       \* stop() calls

\* the constructor's values of two fields no method of the class's callers
\* changes while the sequencer plays its own chord
useChordSustain == FALSE
triggerMode == "internal"

\* Harmony.getChordPreset('fundamental')
FundamentalChord == [modes |-> << [m |-> 1, n |-> 1, amplitude |-> Scale] >>]

\* triggerCurrentStep at step k; triggerSound on an active step: setChord now
\* and, without sustain, a timeout that calls clearChord
triggerCurrentStep(k) ==
  IF pattern[k + 1] /\ triggerMode /= "external"
  THEN /\ triggers < MaxPulses
       /\ triggers' = triggers + 1
       /\ EngineSend(Msg("setChord",
                         [amplitudes |->
                            chordToAmplitudes(FundamentalChord, params.mMax,
                                              params.mMax),
                          sustain |-> useChordSustain]))
       /\ clearTimers' =
            IF useChordSustain THEN clearTimers
            ELSE clearTimers
                   \cup {[pulse |-> triggers + 1, step |-> k,
                          stops |-> stops]}
  ELSE UNCHANGED <<triggers, clearTimers, portVars>>

play ==
  /\ ~isPlaying
  /\ isPlaying' = TRUE
  /\ currentStep' = 0
  /\ intervalId' = TRUE
  /\ triggerCurrentStep(0)
  /\ UNCHANGED <<stops, patternVars, processorVars, workletNode,
                 initVars, articVars,
                 seqVars>>

pause ==
  /\ isPlaying' = FALSE
  /\ intervalId' = FALSE
  /\ UNCHANGED <<currentStep, clearTimers, triggers, stops,
                 patternVars, audioVars, initVars, articVars,
                 seqVars>>

\* stop(): the timeouts of triggerSound are left pending
stopSequencer ==
  /\ stops < MaxStops
  /\ stops' = stops + 1
  /\ isPlaying' = FALSE
  /\ currentStep' = 0
  /\ intervalId' = FALSE
  /\ EngineSend(Msg("clearChord", [none |-> TRUE]))
  /\ UNCHANGED <<clearTimers, triggers, patternVars,
                 processorVars, workletNode, initVars, articVars,
                 seqVars>>

\* one round of the scheduler's loop: advanceStep
scheduler ==
  /\ intervalId
  /\ currentStep' = (currentStep + 1) % steps
  /\ triggerCurrentStep(currentStep')
  /\ UNCHANGED <<isPlaying, intervalId, stops, patternVars,
                 processorVars, workletNode, initVars, articVars,
                 seqVars>>

\* the timeout of pulse t.pulse fires: clearChord, whatever happened since.
\* The timeouts have the same delay and fire in the order they were set.
clearTimeoutFires(t) ==
  /\ t \in clearTimers
  /\ \A u \in clearTimers : u.pulse >= t.pulse
  /\ clearTimers' = clearTimers \ {t}
  /\ EngineSend(Msg("clearChord", [none |-> TRUE]))
  /\ UNCHANGED <<currentStep, isPlaying, intervalId, triggers,
                 stops, patternVars, processorVars, workletNode, initVars,
                 articVars,
                 seqVars>>

\* the rhythms of 4 steps: four-floor and backbeat
LoadShortRhythm ==
  LoadRhythmPresetFrom({preset \in RhythmPresets : preset.steps = 4})
Play == play
Pause == isPlaying /\ pause
StopSequencer == stopSequencer
Scheduler == scheduler
ClearTimeoutFires == \E t \in clearTimers : clearTimeoutFires(t)

NextPulse ==
  \/ EngineInit
  \/ LoadShortRhythm
  \/ Play
  \/ Pause
  \/ StopSequencer
  \/ Scheduler
  \/ ClearTimeoutFires

SpecPulse == Init /\ [][NextPulse]_vars

\* ------------------------------------------------------------------------
\* Properties
\* ------------------------------------------------------------------------
\* a step that delivers a message of type t to the processor
Delivers(t) ==
  /\ queue /= <<>>
  /\ Head(queue).type = t
  /\ queue' = Tail(queue)

\* a step that processes one sample
SampleStep == sinceCmd' = sinceCmd + 1

\* the last sample written to the output channel
LastOut == channel[Len(channel)]

\* the engine parameters the control plane writes
MicGains == [j \in DOMAIN modes |-> modes[j].micGain]
Config == <<masterGain, driveEnabled, driveFreq, driveAmp, driveX, driveY,
            chordAttack, chordRelease, chordSustainLevel, chordMode,
            targetAmplitudes, MicGains>>

\* C1: no step taken while a process() call is executing (after its first
\* sample has started and before its last sample is done) changes masterGain,
\* the drive fields, the chord parameters, chordMode, a targetAmplitude or a
\* micGain: all samples of a block see the same parameters.
C1_BlockAtomic ==
  [][(blockPos /= 0 \/ blockPos' /= 0) => Config' = Config]_vars

\* a message waits in the port while a block is half processed
C1_Witness ==
  /\ blockPos > 0
  /\ queue /= <<>>
  /\ Head(queue).type = "setGain"
  /\ Head(queue).data.gain /= masterGain

\* C2: once every posted message has been delivered, each overwritten field
\* holds what the last message in arrival order that affects it wrote.
C2_LastWriteWins ==
  queue = <<>> =>
    /\ masterGain = lastPosted.masterGain
    /\ driveEnabled = lastPosted.driveEnabled
    /\ chordMode = lastPosted.chordMode
    /\ chordAttack = lastPosted.chordAttack
    /\ targetAmplitudes = lastPosted.targetAmplitudes

\* a chord was set, ramped up, and a later clearChord overwrote its targets
C2_Witness ==
  /\ queue = <<>>
  /\ lastCmd.type = "clearChord"
  /\ chordModeBefore
  /\ ~chordMode
  /\ \E j \in DOMAIN targetAmplitudes :
       currentAmplitudes[j] > 0 /\ targetAmplitudes[j] = 0

\* C5: a step that delivers setMic changes, of every mode, only micGain, and
\* leaves the chord state, the drive state, masterGain and peakTracker alone.
C5_MicOnly ==
  [][Delivers("setMic") =>
       /\ DOMAIN modes' = DOMAIN modes
       /\ \A j \in DOMAIN modes :
            modes'[j] = [modes[j] EXCEPT !.micGain = modes'[j].micGain]
       /\ UNCHANGED <<chordVars, chordParamVars, driveVars, drivePhase,
                      masterGain, peakTracker, initialized>>]_vars

\* setMic was delivered to a bank holding a pending pulse and moved the mic
C5_Witness ==
  /\ lastCmd.type = "setMic"
  /\ sinceCmd = 0
  /\ \E j \in DOMAIN modes : modes[j].pendingPulse /= 0
  /\ \E j \in DOMAIN modes :
       modes[j].micGain /= InitData.modes[j].micGain

\* C3: a step that delivers reset zeroes y1, y2 and pendingPulse of every
\* mode, every targetAmplitude, every smoothed chord currentAmplitude, every
\* chordPhase, chordMode, peakTracker and every per-mode peakAmp, and leaves
\* the coefficients of every mode unchanged.
C3_ResetZeroesAll ==
  [][Delivers("reset") =>
       /\ DOMAIN modes' = DOMAIN modes
       /\ \A j \in DOMAIN modes :
            /\ modes'[j].y1 = 0 /\ modes'[j].y2 = 0
            /\ modes'[j].pendingPulse = 0
            /\ modes'[j].peakAmp = 0
            /\ targetAmplitudes'[j] = 0
            /\ currentAmplitudes'[j] = 0
            /\ chordPhases'[j] = 0
            /\ modes'[j].freq = modes[j].freq
            /\ modes'[j].omega = modes[j].omega
            /\ modes'[j].R = modes[j].R
            /\ modes'[j].Rcos = modes[j].Rcos
            /\ modes'[j].R2 = modes[j].R2
            /\ modes'[j].g = modes[j].g
            /\ modes'[j].micGain = modes[j].micGain
       /\ ~chordMode'
       /\ peakTracker' = 0]_vars

C6_EnvelopeClamp ==
  [][SampleStep =>
       \A j \in DOMAIN currentAmplitudes :
         /\ currentAmplitudes'[j]
              >= Min(currentAmplitudes[j], targetAmplitudes[j])
         /\ currentAmplitudes'[j]
              <= Max(currentAmplitudes[j], targetAmplitudes[j])]_vars

Pulses == [j \in DOMAIN modes |-> modes[j].pendingPulse]

\* C8: setChord with sustain = false adds 0.15 * amplitudes[i] to the pending
\* pulse of every mode whose entry is nonzero and leaves the others; with
\* sustain = true no pending pulse changes.
C8_AccentNonzero ==
  [][Delivers("setChord") =>
       LET d == Head(queue).data
       IN  Pulses' = [j \in DOMAIN modes |->
                        IF ~d.sustain /\ AmpOrZero(d.amplitudes, j) /= 0
                        THEN Pulses[j] + Mul(d.amplitudes[j], AccentGain)
                        ELSE Pulses[j]]]_vars

\* C8 amended: the pulse is added for the entries that are greater than 0.
C8_AccentPositive ==
  [][Delivers("setChord") =>
       LET d == Head(queue).data
       IN  Pulses' = [j \in DOMAIN modes |->
                        IF ~d.sustain /\ AmpOrZero(d.amplitudes, j) > 0
                        THEN Pulses[j] + Mul(d.amplitudes[j], AccentGain)
                        ELSE Pulses[j]]]_vars

\* a non-sustained chord with a negative and a positive entry was delivered
C8_Witness ==
  /\ lastCmd.type = "setChord"
  /\ ~lastCmd.data.sustain
  /\ sinceCmd = 0
  /\ lastCmd.data.amplitudes[2] < 0
  /\ modes[2].pendingPulse = 0
  /\ modes[3].pendingPulse = Mul(lastCmd.data.amplitudes[3], AccentGain)
  /\ modes[3].pendingPulse > 0

\* C9: on the samples after a clearChord that ended a sustained chord, every
\* mode whose smoothed amplitude is still above 0.001 receives the chord
\* sustain contribution.
C9_ReleaseFade ==
  (lastCmd.type = "clearChord" /\ chordModeBefore /\ sinceCmd >= 1) =>
     \A j \in DOMAIN currentAmplitudes :
       currentAmplitudes[j] > ChordThreshold => chordFed[j]

\* C10: after a setChord carrying chordToAmplitudes(c), the modes of the bank
\* with a nonzero target are exactly the modes (m,n) the chord c names.
C10_ChordOrder ==
  \A c \in Chords :
    (/\ lastCmd.type = "setChord"
     /\ lastCmd.data.amplitudes = chordToAmplitudes(c, params.mMax, params.mMax))
    => \A j \in DOMAIN modes :
         targetAmplitudes[j] /= 0
           <=> \E k \in DOMAIN c.modes :
                 c.modes[k].m = modes[j].m /\ c.modes[k].n = modes[j].n

\* C11: a delivered 'setDrive' overwrites the whole drive state with the
\* message's five values, whatever they are (0 included)
C11_DriveOverwrite ==
  [][Delivers("setDrive") =>
       /\ driveEnabled' = Head(queue).data.enabled
       /\ driveFreq' = Head(queue).data.freq
       /\ driveAmp' = Head(queue).data.amp
       /\ driveX' = Head(queue).data.x
       /\ driveY' = Head(queue).data.y]_vars

\* the configuration errors of an 'init' message: a mode index below 1, a
\* non-positive sample rate, a pole radius R >= 1
ConfigError(data) ==
  \/ data.sampleRate <= 0
  \/ \E i \in DOMAIN data.modes :
        data.modes[i].m < 1 \/ data.modes[i].n < 1 \/ data.modes[i].R >= Scale

\* C12: an 'init' that carries a configuration error is rejected: the engine
\* stays as it was (uninitialized, no bank), and no 'ready' is posted
C12_ConfigRejected ==
  [][Delivers("init") /\ ConfigError(Head(queue).data) =>
       /\ initialized' = initialized
       /\ modes' = modes
       /\ readyCount' = readyCount]_vars

\* C13: whatever arguments a strike carries, no mode's pendingPulse, y1 or
\* y2 ever holds a non-finite value
C13_PulsesFinite ==
  \A j \in DOMAIN modes :
    NaN \notin { modes[j].pendingPulse, modes[j].y1, modes[j].y2 }

C15_StrumImpulse ==
  [][Delivers("exciteModes") =>
       \A j \in DOMAIN modes :
         /\ AmpOrZero(Head(queue).data.amplitudes, j) /= 0
               => modes'[j].pendingPulse /= modes[j].pendingPulse
         /\ modes'[j].y1 = modes[j].y1
         /\ modes'[j].y2 = modes[j].y2]_vars

\* C16: the number of snapshots posted is floor(samples / 128) and the
\* counter is samples mod 128 (so it stays in 0..127); the last snapshot has
\* one entry per mode; a step that processes no sample (a command, Reset
\* included) changes neither the counter nor the number of snapshots
C16_SnapshotCounts ==
  /\ snapshotCount = samples \div snapshotInterval
  /\ sampleCounter = samples % snapshotInterval
  /\ (snapshotCount > 0) = (snapshot /= << >>)
  /\ snapshot /= << >> => DOMAIN snapshot = DOMAIN modes

C16_CommandsKeepCounter ==
  ~SampleStep => /\ sampleCounter' = sampleCounter
                 /\ snapshotCount' = snapshotCount
                 /\ snapshot' = snapshot

C16_SnapshotEvery128 == []C16_SnapshotCounts /\ [][C16_CommandsKeepCounter]_vars

\* a snapshot has been posted, and a Reset arrived while the counter was not 0
C16_Witness ==
  /\ snapshotCount = 1
  /\ DOMAIN snapshot = DOMAIN modes
  /\ sampleCounter > 0
  /\ lastCmd.type = "reset"
  /\ (samples - sinceCmd) % snapshotInterval /= 0

\* the three phases of the experiment have been recorded
SuperDone == Len(lab.log) = 3

\* C17 (as stated): the output block of the strike on both modes equals,
\* sample by sample, the sum of the output blocks of the two single strikes
C17_OutputAdditive ==
  SuperDone =>
    \A i \in 1..BlockLen :
      lab.log[3].out[i] = lab.log[1].out[i] + lab.log[2].out[i]

\* C17 (amended): the resonator memory of every mode and the bank's mix (the
\* sample before auto-gain, master gain and limiter) of the strike on both
\* modes are the sums of those of the two single strikes
C17_BankAdditive ==
  SuperDone =>
    /\ \A j \in DOMAIN modes :
         /\ lab.log[3].y1[j] = lab.log[1].y1[j] + lab.log[2].y1[j]
         /\ lab.log[3].y2[j] = lab.log[1].y2[j] + lab.log[2].y2[j]
    /\ lab.log[3].mix = lab.log[1].mix + lab.log[2].mix

C17_Witness ==
  /\ SuperDone
  /\ lab.log[1].mix /= 0
  /\ lab.log[2].mix /= 0
  /\ lab.log[3].mix /= 0
  /\ lab.log[3].y1[lab.a] /= 0
  /\ lab.log[3].y1[lab.b] /= 0

\* the strike of Scenario B: the centre of the plate, gain 1.0
CentreStrike ==
  /\ Delivers("excite")
  /\ Head(queue).data = [x |-> HalfTurn \div 2, y |-> HalfTurn \div 2,
                         gain |-> Scale]

C19_OutputStage ==
  [][SampleStep =>
       LET raw  == Mix(modes', Len(modes'))
           auto == IF peakTracker' * 100 > Scale
                   THEN Min(Quot(Scale \div 2, peakTracker'), 10 * Scale)
                   ELSE Scale
           x    == Mul(Mul(raw, auto), masterGain)
       IN  /\ LastOut' = IF 2 * Abs(x) < Scale THEN x ELSE Tanh(x)
           /\ softLimit((49 * Scale) \div 100) = (49 * Scale) \div 100
           /\ softLimit((51 * Scale) \div 100) = Tanh((51 * Scale) \div 100)
           /\ Tanh((51 * Scale) \div 100) < (51 * Scale) \div 100]_vars

\* a block whose samples went through the tanh branch: an emitted magnitude
\* of 0.5 or more cannot come from the pass-through branch
C19_Witness ==
  /\ channel /= << >>
  /\ masterGain >= Scale
  /\ 2 * Abs(LastOut) >= Scale
  /\ 2 * Abs(LastOut) < 2 * masterGain

\* the last command struck one mode, and samples have been processed since
StruckOnce == lastCmd.type = "exciteMode" /\ sinceCmd >= 1
Struck ==
  CHOOSE j \in DOMAIN modes :
    modes[j].m = lastCmd.data.m /\ modes[j].n = lastCmd.data.n

\* the free ringing of a mode from memory (y1, y2), sample n: its first
\* local maximum of |y1| and the sample where it is reached
RECURSIVE RingPeak(_, _, _, _)
RingPeak(mode, y1, y2, n) ==
  IF \/ n >= snapshotInterval
     \/ Abs(Resonate([mode EXCEPT !.y1 = y1, !.y2 = y2], 0)) < Abs(y1)
  THEN [peak |-> Abs(y1), at |-> n]
  ELSE RingPeak(mode, Resonate([mode EXCEPT !.y1 = y1, !.y2 = y2], 0), y1,
                n + 1)
FirstPeak == RingPeak(modes[Struck], Mul(modes[Struck].g, lastCmd.data.gain),
                      0, 1)

Count(p) == Cardinality({i \in 1..Len(p) : p[i]})

\* C21: for every step count 1..32 and pulse count 0..steps the sequencer can
\* hold, bjorklund returns exactly steps booleans of which exactly pulses are
\* true, and the pattern without manual overrides is a rotation of it
IsRotation(p, base) ==
  /\ Len(p) = Len(base)
  /\ \E r \in 0..(Len(base) - 1) :
       \A i \in 1..Len(base) : p[i] = base[((i - 1 + r) % Len(base)) + 1]

BjorklundShape(base) ==
  /\ Len(base) = steps
  /\ Count(base) = pulses
  /\ manualOverrides = {} => IsRotation(pattern, base)

C21_PatternShape ==
  /\ steps \in 1..MaxSteps
  /\ pulses \in 0..steps
  /\ BjorklundShape(bjorklund(pulses, steps))

C21_Witness ==
  /\ steps = 32
  /\ pulses = 13
  /\ rotation = 5
  /\ manualOverrides = {}
  /\ pattern /= bjorklund(pulses, steps)

\* the 0-based steps of a pattern that carry a pulse
Onsets(p) == {i - 1 : i \in {j \in 1..Len(p) : p[j]}}

\* C22: at rotation 0 and without overrides, 3 pulses in 8 steps give
\* X..X..X., 5 in 8 give X.XX.XX. and 5 in 16 give X..X..X..X..X...
C22_DocumentedExamples ==
  (rotation = 0 /\ manualOverrides = {}) =>
    /\ (pulses = 3 /\ steps = 8) => Onsets(pattern) = {0, 3, 6}
    /\ (pulses = 5 /\ steps = 8) => Onsets(pattern) = {0, 2, 3, 5, 6}
    /\ (pulses = 5 /\ steps = 16) => Onsets(pattern) = {0, 3, 6, 9, 12}

\* C23: playChord and stop cancel what was going on: every pending strum
\* timeout and every active arpeggio interval was started for the last
\* playChord and plays that chord's modes, none is left after stop, and at
\* most one arpeggio interval is active
C23_Cancelled ==
  /\ Cardinality(intervals) <= 1
  /\ \A t \in timeouts :
       /\ lastChord /= 0
       /\ t.epoch = played
       /\ \E i \in 1..Len(ArticChords[lastChord].modes) :
            gridIndex(ArticChords[lastChord].modes[i]) = t.md.gridIndex
  /\ \A i \in intervals :
       /\ lastChord /= 0
       /\ i.epoch = played
       /\ i.id = arpeggioInterval
       /\ sortedModes = sortModesByFrequency(ArticChords[lastChord].modes)

C23_Witness ==
  /\ played = 2
  /\ lastChord = 2
  /\ Cardinality(intervals) = 1
  /\ timerIds = 5
  /\ Len(notes) = 2

\* C24: a setArpeggioRate call made while an arpeggio interval is active
\* leaves the active interval with the period 60000 / (the new rate, clamped
\* to 30..480) ms, however many such calls came before
C24_RateRestarts ==
  [][(SetArpeggioRate /\ intervals /= {}) =>
       /\ intervals' /= {}
       /\ \A i \in intervals' : i.period = IntervalMs(arpeggioRate')]_vars

\* the documented positions: DOWN_UP 3, 2, 1, 0, 1, 2, 3, 2, ... and
\* DOWN 3, 2, 1, 0, 3, 2, 1, 0, ... on 4 modes, k counting from 0
DownUpDocumented(k) == Abs(3 - (k % 6))
DownDocumented(k) == 3 - (k % 4)

\* C25: on a chord of 4 modes the positions triggered since playArpeggio
\* are 3, 2, 1, 0, 1, 2, 3, 2, ... with DOWN_UP and 3, 2, 1, 0, 3, 2, 1, 0,
\* ... with DOWN
C25_DownOrder ==
  (intervals /= {} /\ Len(sortedModes) = 4) =>
    /\ arpeggioPattern = "downUp" =>
         \A k \in 1..Len(notes) : notes[k] = DownUpDocumented(k - 1)
    /\ arpeggioPattern = "down" =>
         \A k \in 1..Len(notes) : notes[k] = DownDocumented(k - 1)

\* C26: the clearChord that the timeout of a non-sustained pulse posts comes
\* before any later pulse's setChord and before any later stop()
C26_ClearOnSameStep ==
  [][\A t \in clearTimers :
       (clearTimeoutFires(t) /\ queue' /= queue) =>
         (triggers = t.pulse /\ stops = t.stops)]_vars

\* what a delivered strike adds to the pending pulse of mode j
StrikeAdds(msg, j) ==
  CASE msg.type = "excite" ->
         StrikePulse(modes[j], msg.data.x, msg.data.y, msg.data.gain)
    [] msg.type = "exciteMode" ->
         IF modes[j].m = msg.data.m /\ modes[j].n = msg.data.n
         THEN msg.data.gain ELSE 0
    [] msg.type = "setChord" ->
         IF ~msg.data.sustain /\ AmpOrZero(msg.data.amplitudes, j) > 0
         THEN Mul(msg.data.amplitudes[j], AccentGain) ELSE 0
    [] OTHER -> 0

\* C27: pendingPulse is a one-sample accumulator. A strike delivered between
\* two blocks adds its pulse to what is pending; a processed sample feeds the
\* pending sum into the resonator (alone when neither the drive nor the chord
\* sustain feeds the mode) and leaves pendingPulse of every mode 0, so that
\* inside a block and after a sample nothing is pending.
C27_OneSamplePulse ==
  /\ [](blockPos > 0 \/ sinceCmd >= 1 =>
          \A j \in DOMAIN modes : modes[j].pendingPulse = 0)
  /\ [][/\ \A t \in {"excite", "exciteMode", "setChord"} :
             (Delivers(t) /\ modes /= << >> /\ targetAmplitudes /= << >>) =>
               \A j \in DOMAIN modes :
                 modes'[j].pendingPulse
                   = Plus(modes[j].pendingPulse, StrikeAdds(Head(queue), j))
        /\ SampleStep =>
             \A j \in DOMAIN modes :
               /\ modes'[j].pendingPulse = 0
               /\ (~driveEnabled /\ ~chordFed'[j]) =>
                    modes'[j].y1
                      = Resonate(modes[j], modes[j].pendingPulse)]_vars

\* two strikes were pending together and one sample has consumed their sum
C27_Witness ==
  /\ samples = 1
  /\ lastCmd.type = "exciteMode"
  /\ ~driveEnabled
  /\ \E j \in DOMAIN modes :
       /\ modes[j].pendingPulse = 0
       /\ StrikePulse(modes[j], HalfTurn \div 2, HalfTurn \div 2, Scale) /= 0
       /\ modes[j].y1
            = Mul(modes[j].g,
                  StrikePulse(modes[j], HalfTurn \div 2, HalfTurn \div 2,
                              Scale) + Scale \div 10)
       /\ modes[j].y1
            /= Mul(modes[j].g,
                   StrikePulse(modes[j], HalfTurn \div 2, HalfTurn \div 2,
                               Scale))

\* C28: the bank's four arrays always have one common length, which only an
\* 'init' changes, and setChord writes exactly the slots of the bank's modes,
\* a missing entry as 0, whatever the length of the vector it is given
C28_BankLength ==
  /\ [](/\ Len(targetAmplitudes) = Len(modes)
        /\ Len(currentAmplitudes) = Len(modes)
        /\ Len(chordPhases) = Len(modes))
  /\ [][/\ ~Delivers("init") => Len(modes') = Len(modes)
        /\ (Delivers("setChord") /\ modes /= << >>) =>
             targetAmplitudes'
               = [i \in 1..Len(modes) |->
                    AmpOrZero(Head(queue).data.amplitudes, i)]]_vars

\* a chord vector longer than the bank was delivered and samples were
\* processed after it
C28_Witness ==
  /\ lastCmd.type = "setChord"
  /\ modes /= << >>
  /\ Len(lastCmd.data.amplitudes) > Len(modes)
  /\ Len(targetAmplitudes) = Len(modes)
  /\ sinceCmd >= 1

\* C29: after every processed sample the drive phase lies between 0 and
\* 2 pi, for every frequency setDrive installs, above the sample rate and
\* negative ones included
C29_DrivePhaseWrapped ==
  samples >= 1 => (drivePhase >= 0 /\ drivePhase <= FullTurn)

\* C30: whatever the engine is called with, and however often init() is
\* called, one AudioContext and one worklet node at most are created, a node
\* exists only once 'init' has been posted, and a message posted to the
\* processor is 'init' exactly when it is the first one
C30_InitOnceFirst ==
  /\ [](/\ contexts <= 1
        /\ nodes <= 1
        /\ workletNode => posted >= 1
        /\ posted >= 1 => nodes = 1)
  /\ [][posted' = posted + 1 =>
          (queue'[Len(queue')].type = "init" <=> posted = 0)]_vars

\* 'init' and then other commands were posted, the first init() having
\* resumed
C30_Witness ==
  /\ posted = MaxPosts
  /\ contexts = 1
  /\ nodes = 1
  /\ initAwaiting = 0
  /\ initialized

\* the mixed sample of a step after the auto-gain stage, before masterGain
AutoGained ==
  Mul(Mix(modes', Len(modes')), Min(AutoGain(peakTracker'), AutoGainMax))

\* C31: on every processed sample the auto-gained sample has magnitude at
\* most 0.5, peakTracker is non-negative and at least the magnitude of the
\* mixed sample, and with |masterGain| <= 1 the emitted sample is the
\* limiter's input unless that input has magnitude exactly 0.5
C31_AutoGainBound ==
  /\ [](peakTracker >= 0)
  /\ [][SampleStep =>
          /\ Abs(AutoGained) <= AutoGainTarget
          /\ peakTracker' >= Abs(Mix(modes', Len(modes')))
          /\ Abs(masterGain) <= Scale =>
               \/ LastOut' = Mul(AutoGained, masterGain)
               \/ Abs(Mul(AutoGained, masterGain)) = LimiterKnee]_vars

\* a sample that set a new peak above 0.05 was brought to the target
\* magnitude (0.5, less the truncation of the two fixed-point operations)
\* and, under unit master gain, was emitted
C31_Witness ==
  /\ channel /= << >>
  /\ sinceCmd >= 1
  /\ masterGain = Scale
  /\ peakTracker > AutoGainTarget \div 10
  /\ peakTracker = Abs(Mix(modes, Len(modes)))
  /\ Abs(LastOut) >= AutoGainTarget - 1

\* ------------------------------------------------------------------------
\* The processor before its first 'init': a client of the node's port that
\* posts commands ahead of 'init'
\* ------------------------------------------------------------------------
\* the commands that need a bank, and the three that only write a field
InertTypes == { "excite", "exciteMode", "setMic", "setChord", "clearChord",
                "reset" }

EarlyCommands ==
  { Msg("init", InitData),
    Msg("excite", [x |-> HalfTurn \div 2, y |-> HalfTurn \div 2,
                   gain |-> Scale]),
    Msg("exciteMode", [m |-> 1, n |-> 1, gain |-> Scale \div 10]),
    Msg("setMic", [x |-> HalfTurn \div 4, y |-> HalfTurn \div 4]),
    Msg("setChord", [amplitudes |-> << Scale, 0, 0, 0 >>, sustain |-> TRUE]),
    Msg("clearChord", [none |-> TRUE]),
    Msg("reset", [none |-> TRUE]),
    Msg("setGain", [gain |-> Scale \div 2]),
    Msg("setDrive", [enabled |-> TRUE, freq |-> 6000, amp |-> Scale,
                     x |-> HalfTurn \div 4, y |-> HalfTurn \div 4]),
    Msg("setChordParams", [attack |-> Scale \div 4]) }

\* new AudioWorkletNode(context, 'modal-drum-processor') by a client that
\* does not post 'init' in the same task
ConnectNode ==
  /\ ~workletNode
  /\ workletNode' = TRUE
  /\ audioContext' = TRUE
  /\ contexts' = contexts + 1
  /\ nodes' = nodes + 1
  /\ UNCHANGED <<initAwaiting, readyVars, processorVars, portVars, appVars>>

PostEarly == PostFrom(EarlyCommands)

NextInert ==
  \/ ConnectNode
  \/ PostEarly
  \/ OnInit
  \/ OnExcite
  \/ OnExciteMode
  \/ OnSetMic
  \/ OnSetGain
  \/ OnSetDrive
  \/ OnSetChord
  \/ OnSetChordParams
  \/ OnClearChord
  \/ OnReset
  \/ ProcessSample
  \/ ProcessIdle

SpecInert == Init /\ [][NextInert]_vars

\* the processor's fields a command or process() could write
ProcessorState ==
  <<modes, initialized, sampleCounter, masterGain, driveVars, drivePhase,
    chordVars, chordParamVars, peakTracker, channel, samples, readyCount,
    snapshotCount>>

\* C32: while no 'init' has been delivered, a delivered excite, exciteMode,
\* setMic, setChord, clearChord or reset and a process() call leave every
\* processor field as it was; a delivered setGain, setDrive or setChordParams
\* writes its fields; and the first 'init' keeps those fields, builds the
\* bank from its own data alone (no pulse, the mic gains of the message) and
\* leaves the chord switched off with zero targets
C32_InertBeforeInit ==
  [][~initialized =>
       /\ (\E t \in InertTypes : Delivers(t)) => UNCHANGED ProcessorState
       /\ blocks' = blocks + 1 => UNCHANGED ProcessorState
       /\ Delivers("setGain") => masterGain' = Head(queue).data.gain
       /\ Delivers("setDrive") =>
            /\ driveEnabled' = Head(queue).data.enabled
            /\ driveFreq' = Head(queue).data.freq
            /\ driveAmp' = Head(queue).data.amp
            /\ driveX' = Head(queue).data.x
            /\ driveY' = Head(queue).data.y
       /\ Delivers("setChordParams") =>
            chordAttack' = Head(queue).data.attack
       /\ Delivers("init") =>
            /\ UNCHANGED <<masterGain, driveVars, chordParamVars>>
            /\ chordMode' = FALSE
            /\ peakTracker' = 0
            /\ sampleCounter' = 0
            /\ drivePhase' = 0
            /\ targetAmplitudes' = Zeros(Len(Head(queue).data.modes))
            /\ \A j \in DOMAIN modes' :
                 /\ modes'[j].pendingPulse = 0
                 /\ modes'[j].micGain = Head(queue).data.modes[j].micGain]_vars

\* before any 'init' was delivered: a setGain took effect, a strike was
\* delivered last, process() was called, and 'init' is next in the queue
C32_Witness ==
  /\ ~initialized
  /\ lastCmd.type = "excite"
  /\ masterGain = Scale \div 2
  /\ blocks >= 1
  /\ queue /= << >>
  /\ Head(queue).type = "init"

\* ------------------------------------------------------------------------
\* The ready handshake: init(), the processor's 'ready' reply and the
\* engine's port.onmessage handler, under a channel that delivers
\* ------------------------------------------------------------------------
\* the engine's handler without its 'ready' case
OnReadyDropped ==
  /\ readySeen < readyCount
  /\ readySeen' = readySeen + 1
  /\ UNCHANGED <<isReady, audioContext, initAwaiting, contexts, nodes,
                 audioVars, appVars>>

\* workletNode.port.onmessage for a message of type 'ready'
OnReady ==
  /\ readySeen < readyCount
  /\ readySeen' = readySeen + 1
  /\ isReady' = TRUE
  /\ UNCHANGED <<audioContext, initAwaiting, contexts, nodes, audioVars,
                 appVars>>

\* what the engine posts once the node exists, strikes aside
ReadyCommands == { c \in Commands : c.type /= "excite" }

PostReady == PostFrom(ReadyCommands)

\* the processor's port hands over the oldest message
DeliverNext ==
  \/ OnInit
  \/ OnExciteMode
  \/ OnSetMic
  \/ OnSetGain
  \/ OnSetDrive
  \/ OnSetChord
  \/ OnSetChordParams
  \/ OnClearChord
  \/ OnReset

\* the promise of addModule settles, one way or the other
AddModuleSettles == InitResume \/ InitRejected

NextReady ==
  \/ InitCall
  \/ InitResume
  \/ InitRejected
  \/ PostReady
  \/ OnInit
  \/ OnExciteMode
  \/ OnSetMic
  \/ OnSetGain
  \/ OnSetDrive
  \/ OnSetChord
  \/ OnSetChordParams
  \/ OnClearChord
  \/ OnReset
  \/ OnReady

\* both ports deliver every message and the promise of addModule settles
SpecReady ==
  /\ Init
  /\ [][NextReady]_vars
  /\ WF_vars(DeliverNext)
  /\ WF_vars(OnReady)
  /\ WF_vars(AddModuleSettles)

\* init() threw at 'await addModule': the context exists, no call is
\* suspended and no node was created
AddModuleRejected == audioContext /\ initAwaiting = 0 /\ ~workletNode

\* isReady only after initModes ran and 'ready' was posted; never reset
ReadySafety ==
  /\ [](isReady => initialized /\ readyCount >= 1 /\ readySeen >= 1)
  /\ [][isReady => isReady']_vars

C34_SequencerConsistent ==
  /\ Len(pattern) = steps
  /\ 0 <= pulses /\ pulses <= steps
  /\ 0 <= rotation /\ rotation < steps
  /\ \A i \in manualOverrides : 0 <= i /\ i < steps
  /\ 0 <= currentStep /\ currentStep < steps

\* the pattern and the override set a toggleStep(index) would leave, called
\* in the state a step has reached
ToggledAgain(index) ==
  IF index < 0 \/ index >= steps' THEN <<pattern', manualOverrides'>>
  ELSE <<regeneratePattern(pulses', steps', rotation',
                           toggled(manualOverrides', index)),
         toggled(manualOverrides', index)>>

\* C35: a toggleStep(index) step, in or out of range, is undone by a second
\* toggleStep(index): pattern and overrides are as before the first; and a
\* setStep(index, active) step with 0 <= index < steps leaves
\* pattern[index] = active, whether or not the step was overridden before
C35_OverridesAlgebra ==
  [][\A index \in {steps - 1, steps} :
       /\ toggleStep(index) =>
            ToggledAgain(index) = <<pattern, manualOverrides>>
       /\ \A active \in BOOLEAN :
            (index < steps /\ setStep(index, active)) =>
               pattern'[index + 1] = active]_vars

\* a step that the Euclidean pattern has on carries the only override and is
\* off: the state toggleStep(index) or setStep(index, FALSE) leaves there
C35_Witness ==
  /\ manualOverrides = {steps - 1}
  /\ rotateArray(bjorklund(pulses, steps), rotation)[steps]
  /\ ~pattern[steps]

\* ------------------------------------------------------------------------
\* ChordSequencer (sequencer.js): the calls of the sequencer panel and the
\* animation-frame callbacks. The chords themselves are left out: a step is
\* its position in the list. The engine's node does not exist in these runs,
\* so AudioEngine.setChord and clearChord return without posting; the calls
\* of setChord are counted in chordCalls. Callbacks run in the order they
\* were requested, and the handle the sequencer holds is that of the request
\* made last, so the pending callbacks are a count and the handle a flag.
\* ------------------------------------------------------------------------
MaxChordSteps == 3    \* addStep calls
MaxFrames == 3        \* animation-frame callbacks pending at a time
MaxLeadIndex == 10    \* voiceLeadingIndex, which grows on an empty list

\* this.voiceLeadingSteps, set in the constructor
voiceLeadingSteps == 8

otherVars == <<audioVars, initVars, euclidVars, articVars>>

\* audioEngine.setChord(amplitudes, true) is called
setChordCalled == chordCalls' = 1 - chordCalls

\* playCurrentVoiceLeadingStep() with the path and index given
playCurrentVoiceLeadingStep(path, index) ==
  IF path = 0 \/ index >= path THEN UNCHANGED chordCalls ELSE setChordCalled

\* startCurrentStep() at step k; index is what voiceLeadingIndex holds when
\* the step does not exist. generateVoiceLeading returns
\* voiceLeadingSteps + 1 chords
startCurrentStep(k, index) ==
  IF k >= seqSteps
  THEN /\ voiceLeadingIndex' = index
       /\ UNCHANGED <<voiceLeadingPath, chordCalls>>
  ELSE /\ voiceLeadingPath' = IF seqSteps > 1 THEN voiceLeadingSteps + 1
                              ELSE 1
       /\ voiceLeadingIndex' = 0
       /\ playCurrentVoiceLeadingStep(voiceLeadingPath', 0)

\* scheduleUpdate(): the handle is overwritten, the callback it named stays
\* pending
scheduleUpdate(pending) ==
  /\ pending < MaxFrames
  /\ frames' = pending + 1
  /\ animationFrame' = TRUE

\* if (this.animationFrame) { cancelAnimationFrame(...); ... = null }
cancelFrame ==
  /\ frames' = IF animationFrame THEN frames - 1 ELSE frames
  /\ animationFrame' = FALSE

addStep ==
  /\ seqSteps < MaxChordSteps
  /\ seqSteps' = seqSteps + 1
  /\ inUpdate' = "no"
  /\ UNCHANGED <<seqCurrentStep, seqIsPlaying, isPaused, voiceLeadingPath,
                 voiceLeadingIndex, animationFrame, frames, halted,
                 chordCalls, otherVars>>

\* removeStep without the adjustment of currentStep
removeStepKeepsCursor(index) ==
  /\ seqSteps' = IF index >= 0 /\ index < seqSteps THEN seqSteps - 1
                 ELSE seqSteps
  /\ inUpdate' = "no"
  /\ UNCHANGED <<seqCurrentStep, seqIsPlaying, isPaused, voiceLeadingPath,
                 voiceLeadingIndex, animationFrame, frames, halted,
                 chordCalls, otherVars>>

removeStep(index) ==
  /\ IF index >= 0 /\ index < seqSteps
     THEN /\ seqSteps' = seqSteps - 1
          /\ seqCurrentStep' = IF seqCurrentStep >= seqSteps - 1
                               THEN Max(0, seqSteps - 2)
                               ELSE seqCurrentStep
     ELSE UNCHANGED <<seqSteps, seqCurrentStep>>
  /\ inUpdate' = "no"
  /\ UNCHANGED <<seqIsPlaying, isPaused, voiceLeadingPath, voiceLeadingIndex,
                 animationFrame, frames, halted, chordCalls, otherVars>>

\* stop(), the fields it assigns
stopFields ==
  /\ seqIsPlaying' = FALSE
  /\ isPaused' = FALSE
  /\ seqCurrentStep' = 0
  /\ voiceLeadingPath' = 0
  /\ voiceLeadingIndex' = 0
  /\ cancelFrame
  /\ halted' = TRUE
  /\ inUpdate' = "no"
  /\ UNCHANGED <<chordCalls, otherVars>>

stopChordSequencer == stopFields /\ UNCHANGED seqSteps

\* clear(): stop(), then the list is emptied
clearSteps == stopFields /\ seqSteps' = 0

playChordSequencer ==
  IF seqSteps = 0
  THEN inUpdate' = "no"
       /\ UNCHANGED <<seqSteps, seqCurrentStep, seqIsPlaying, isPaused,
                      voiceLeadingPath, voiceLeadingIndex, animationFrame,
                      frames, halted, chordCalls, otherVars>>
  ELSE /\ IF isPaused
          THEN /\ isPaused' = FALSE
               /\ UNCHANGED <<seqCurrentStep, voiceLeadingPath,
                              voiceLeadingIndex, chordCalls>>
          ELSE /\ seqCurrentStep' = 0
               /\ startCurrentStep(0, voiceLeadingIndex)
               /\ UNCHANGED isPaused
       /\ seqIsPlaying' = TRUE
       /\ scheduleUpdate(frames)
       /\ halted' = FALSE
       /\ inUpdate' = "no"
       /\ UNCHANGED <<seqSteps, otherVars>>

pauseChordSequencer ==
  /\ isPaused' = TRUE
  /\ seqIsPlaying' = FALSE
  /\ cancelFrame
  /\ halted' = TRUE
  /\ inUpdate' = "no"
  /\ UNCHANGED <<seqSteps, seqCurrentStep, voiceLeadingPath,
                 voiceLeadingIndex, chordCalls, otherVars>>

jumpTo(stepIndex) ==
  /\ IF stepIndex >= 0 /\ stepIndex < seqSteps
     THEN /\ seqCurrentStep' = stepIndex
          /\ startCurrentStep(stepIndex, voiceLeadingIndex)
          /\ halted' = FALSE
     ELSE UNCHANGED <<seqCurrentStep, voiceLeadingPath, voiceLeadingIndex,
                      chordCalls, halted>>
  /\ inUpdate' = "no"
  /\ UNCHANGED <<seqSteps, seqIsPlaying, isPaused, animationFrame, frames,
                 otherVars>>

\* the step update() moves to after the last interpolation of a step
nextChordStep ==
  IF seqCurrentStep + 1 >= seqSteps THEN 0 ELSE seqCurrentStep + 1

\* update(time) run by the oldest pending callback; due: the voice-leading
\* interval has elapsed since lastUpdateTime
update(due) ==
  /\ frames > 0
  /\ inUpdate' = IF ~seqIsPlaying \/ isPaused THEN "returned"
                 ELSE IF ~due THEN "waited"
                 ELSE IF voiceLeadingIndex + 1 >= voiceLeadingSteps
                 THEN "advanced"
                 ELSE "interpolated"
  /\ IF ~seqIsPlaying \/ isPaused
     THEN /\ frames' = frames - 1
          /\ animationFrame' = (animationFrame /\ frames > 1)
          /\ UNCHANGED <<seqSteps, seqCurrentStep, seqIsPlaying, isPaused,
                         voiceLeadingPath, voiceLeadingIndex, halted,
                         chordCalls, otherVars>>
     ELSE /\ IF ~due
             THEN UNCHANGED <<seqCurrentStep, voiceLeadingPath,
                              voiceLeadingIndex, chordCalls>>
             ELSE /\ voiceLeadingIndex < MaxLeadIndex
                  /\ IF voiceLeadingIndex + 1 >= voiceLeadingSteps
                     THEN /\ seqCurrentStep' = nextChordStep
                          /\ startCurrentStep(nextChordStep,
                                              voiceLeadingIndex + 1)
                     ELSE /\ voiceLeadingIndex' = voiceLeadingIndex + 1
                          /\ playCurrentVoiceLeadingStep(
                               voiceLeadingPath, voiceLeadingIndex + 1)
                          /\ UNCHANGED <<seqCurrentStep, voiceLeadingPath>>
          /\ scheduleUpdate(frames - 1)
          /\ UNCHANGED <<seqSteps, seqIsPlaying, isPaused, halted,
                         otherVars>>

AddStep == addStep
RemoveStep == \E index \in 0..seqSteps : removeStep(index)
ClearSteps == clearSteps
PlayChordSequencer == playChordSequencer
PauseChordSequencer == pauseChordSequencer
StopChordSequencer == stopChordSequencer
JumpTo == \E stepIndex \in 0..seqSteps : jumpTo(stepIndex)
Update == \E due \in BOOLEAN : update(due)

NextChordSeq ==
  \/ AddStep
  \/ RemoveStep
  \/ ClearSteps
  \/ PlayChordSequencer
  \/ PauseChordSequencer
  \/ StopChordSequencer
  \/ JumpTo
  \/ Update

SpecChordSeq == Init /\ [][NextChordSeq]_vars

\* C36: at most one animation-frame callback of the chord sequencer is
\* pending at any time, play() while playing included, and from a stop() or
\* pause() to the next play() or jumpTo() no step calls setChord
C36_OneUpdateLoop ==
  /\ [](frames <= 1)
  /\ [][halted /\ halted' => chordCalls' = chordCalls]_vars

\* C37: currentStep is 0 while the list is empty and an index of the list
\* otherwise, and an update that finishes the last step goes to step 0 of a
\* fresh path, keeps isPlaying and leaves its next callback pending
C37_CurrentStepValid ==
  /\ [](/\ seqSteps = 0 => seqCurrentStep = 0
        /\ seqSteps > 0 => 0 <= seqCurrentStep /\ seqCurrentStep < seqSteps)
  /\ [][(/\ inUpdate' = "advanced"
         /\ voiceLeadingIndex' /= voiceLeadingIndex
         /\ seqSteps > 0
         /\ seqCurrentStep = seqSteps - 1)
        => /\ seqCurrentStep' = 0
           /\ voiceLeadingIndex' = 0
           /\ seqIsPlaying'
           /\ animationFrame' /\ frames' >= 1]_vars

\* a sequence of two chords has just wrapped: update() ran last, the
\* sequencer plays step 0 of a fresh path and its next callback is pending
C37_Witness ==
  /\ seqSteps = 2
  /\ inUpdate = "advanced"
  /\ seqIsPlaying
  /\ seqCurrentStep = 0
  /\ voiceLeadingIndex = 0
  /\ voiceLeadingPath = voiceLeadingSteps + 1
  /\ animationFrame
  /\ frames = 1

\* chord sizes the index arithmetic of advanceArpeggio is tried on
MaxArpModes == 4

\* a step in which an arpeggio interval stays active and no call of the
\* articulator's interface shows: the interval's callback
ArpeggioTick ==
  /\ intervals /= {}
  /\ UNCHANGED <<intervals, articulation, arpeggioPattern, arpeggioRate,
                 timeouts, played, sortedModes>>

\* C38: while an arpeggio runs its chord has a mode and arpeggioIndex is a
\* position of it; advanceArpeggio keeps it one for every pattern, chord
\* size, direction and random draw; and each tick of the interval triggers
\* the one mode at the new position
C38_ArpeggioIndexInRange ==
  /\ [](intervals /= {} =>
          /\ Len(sortedModes) >= 1
          /\ arpeggioIndex \in 0..(Len(sortedModes) - 1))
  /\ [](\A n \in 1..MaxArpModes :
          arpeggioIndex \in 0..(n - 1) =>
            \A r \in 0..(n - 1) :
              advanceArpeggio(arpeggioPattern, arpeggioIndex,
                              arpeggioDirection, n, r).index \in 0..(n - 1))
  /\ [][ArpeggioTick =>
          /\ arpeggioIndex' \in 0..(Len(sortedModes) - 1)
          /\ Len(notes) < ArticNotes => notes' = Append(notes, arpeggioIndex')
          /\ \A k \in DOMAIN NoteAmps(sortedModes[arpeggioIndex' + 1]) :
               NoteAmps(sortedModes[arpeggioIndex' + 1])[k] /= 0
                 <=> k = gridIndex(sortedModes[arpeggioIndex' + 1]) + 1]_vars

\* an UP_DOWN or DOWN_UP arpeggio on four modes has reached the top and
\* turned round
C38_Witness ==
  /\ intervals /= {}
  /\ Len(sortedModes) = 4
  /\ arpeggioPattern \in {"upDown", "downUp"}
  /\ arpeggioIndex = 3
  /\ arpeggioDirection = -1
====
